---- MODULE Spec2Model ----
(***************************************************************************)
(* Task routing and quota accounting of the SMS agent.                     *)
(*                                                                         *)
(* The model follows src/task_router.py (TaskRouter: the SQLite store with *)
(* its users, tasks, system_metrics and error_logs tables, route_task and  *)
(* complete_task), src/app.py (the Flask handler sms_reply behind the      *)
(* enhanced_rate_limit decorator) and src/core/views.py (the Django        *)
(* limiter check_rate_limit).  Each inbound request is one call; calls run *)
(* concurrently and every step that touches the store is one action.       *)
(***************************************************************************)
EXTENDS Integers, Sequences, FiniteSets, Bags, TLC

(***************************************************************************)
(* Bounds of the model.                                                    *)
(***************************************************************************)
\* number of inbound requests handled concurrently
NumCalls == 2

\* how far around each limit the counters of the quota check are drawn
Slack == 1

\* number of words of the short request texts
MaxWords == 2

\* number of characters of the notification templates
MaxTemplateLen == 6

VARIABLES
    now,            \* the store's clock: the current date <<year, month, day>>
    users,          \* table users: phone_number -> row
    tasks,          \* table tasks: row i has id i (AUTOINCREMENT)
    system_metrics, \* table system_metrics: the bag of its rows (ids left out)
    error_logs,     \* table error_logs: the bag of its rows (ids left out)
    cursor_agent,   \* app.cursor_agent is not None
    twilio_client,  \* app.twilio_client is not None
    req,            \* the requests in flight: call -> locals of the handler
    db_up,          \* the SQLite store can be opened, read and written
    dj_now,         \* Django: timezone.now(), <<year, month, day, hour>>
    dj_users,       \* Django: table users of core.models.User
    dj_tasks,       \* Django: table tasks of core.models.Task
    dj_error_logs,  \* Django: table error_logs of core.models.ErrorLog (a bag)
    dj_req,         \* Django: the requests in flight of sms_receive
    dj_db_up,       \* Django: the database can be read and written
    an,             \* a text under analysis by the router, and what was computed
    rendered,       \* a template under _render_template, and what it gave
    quiet,          \* a call of _is_quiet_hours: its inputs and what it gave
    user_preferences,       \* notifications.db: table user_preferences
    notification_templates, \* notifications.db: table notification_templates
    notification_history,   \* notifications.db: table notification_history
    config,         \* NotificationSystem.config: which webhooks are configured
    clock_hour,     \* datetime.now().hour of the notifier's host
    send,           \* the call of send_notification in flight, and its locals
    delivered,      \* what Twilio, SMTP and the webhooks have accepted so far
    alert_rules,    \* notifications.db: table alert_rules, row i has id i
    alert_clock,    \* the notifier's clock in minutes
    sweep,          \* the last call of check_alert_conditions and its outcome
    sweepers,       \* the calls of check_alert_conditions that overlap
    monitor,        \* the process of app.py and its alert timer thread
    request_timestamps, \* app.request_timestamps: sender -> accepted instants
    wall_clock,     \* time.time() of the web process, in seconds
    limited         \* the last call of basic_rate_limit and what it did

vars == <<now, users, tasks, system_metrics, error_logs,
          cursor_agent, twilio_client, req, db_up, dj_now, dj_users, dj_tasks,
          dj_error_logs, dj_req, dj_db_up, an, rendered, quiet,
          user_preferences, notification_templates, notification_history,
          config, clock_hour, send, delivered, alert_rules, alert_clock, sweep,
          sweepers, monitor, request_timestamps, wall_clock, limited>>

Calls == 1..NumCalls

Phones == {"+15550001", "+15550002"}

(***************************************************************************)
(* Calendar dates, as SQLite's date() computes them.                       *)
(***************************************************************************)
NoDate == <<0, 0, 0>>

IsLeap(y) == (y % 4 = 0 /\ y % 100 # 0) \/ y % 400 = 0

DaysIn(y, m) ==
    IF m = 2 THEN (IF IsLeap(y) THEN 29 ELSE 28)
    ELSE IF m \in {4, 6, 9, 11} THEN 30 ELSE 31

\* a total order on dates
DateNum(d) == (d[1] * 12 + (d[2] - 1)) * 31 + (d[3] - 1)

DateLE(a, b) == DateNum(a) <= DateNum(b)

NextDay(d) ==
    IF d[3] < DaysIn(d[1], d[2]) THEN <<d[1], d[2], d[3] + 1>>
    ELSE IF d[2] < 12 THEN <<d[1], d[2] + 1, 1>>
    ELSE <<d[1] + 1, 1, 1>>

\* date(d, '+1 month'): the month is advanced and a day past the end of the
\* new month overflows into the month after it
PlusOneMonth(d) ==
    LET y == IF d[2] = 12 THEN d[1] + 1 ELSE d[1]
        m == IF d[2] = 12 THEN 1 ELSE d[2] + 1
    IN  IF d[3] <= DaysIn(y, m) THEN <<y, m, d[3]>>
        ELSE IF m = 12 THEN <<y + 1, 1, d[3] - DaysIn(y, m)>>
        ELSE <<y, m + 1, d[3] - DaysIn(y, m)>>

(***************************************************************************)
(* Rate limits by tier (TaskRouter._check_rate_limits).                    *)
(***************************************************************************)
Tiers == {"free", "premium", "enterprise"}

limits ==
    [free       |-> [monthly |-> 50,   daily |-> 10],
     premium    |-> [monthly |-> 500,  daily |-> 50],
     enterprise |-> [monthly |-> 5000, daily |-> 200]]

\* limits.get(tier, limits["free"])
tier_limits(tier) == IF tier \in DOMAIN limits THEN limits[tier] ELSE limits["free"]

(***************************************************************************)
(* Messages are sequences of words, so that the substring test of the      *)
(* decorator can be computed.                                              *)
(***************************************************************************)
LowerWord(w) ==
    CASE w = "Monthly" -> "monthly"
      [] w = "Daily"   -> "daily"
      [] w = "Task"    -> "task"
      [] OTHER         -> w

Lower(s) == [i \in 1..Len(s) |-> LowerWord(s[i])]

\* phrase in s (both sequences of words)
Contains(s, phrase) ==
    \E i \in 0..(Len(s) - Len(phrase)) :
        \A j \in 1..Len(phrase) : s[i + j] = phrase[j]

(***************************************************************************)
(* Texts are sequences of characters, so that lower(), split(), count()    *)
(* and the substring test `in' are computed as Python computes them.       *)
(***************************************************************************)
\* str.lower(), on the letters that occur in the texts
LowerChar(ch) ==
    CASE ch = "A" -> "a" [] ch = "B" -> "b" [] ch = "C" -> "c" [] ch = "D" -> "d"
      [] ch = "E" -> "e" [] ch = "F" -> "f" [] ch = "G" -> "g" [] ch = "H" -> "h"
      [] ch = "I" -> "i" [] ch = "J" -> "j" [] ch = "K" -> "k" [] ch = "L" -> "l"
      [] ch = "M" -> "m" [] ch = "N" -> "n" [] ch = "O" -> "o" [] ch = "P" -> "p"
      [] ch = "Q" -> "q" [] ch = "R" -> "r" [] ch = "S" -> "s" [] ch = "T" -> "t"
      [] ch = "U" -> "u" [] ch = "V" -> "v" [] ch = "W" -> "w" [] ch = "X" -> "x"
      [] ch = "Y" -> "y" [] ch = "Z" -> "z" [] OTHER -> ch

LowerText(s) == [i \in 1..Len(s) |-> LowerChar(s[i])]

\* str.split(): the maximal runs of characters other than the blank.  The
\* text is cut at the blank nearest its middle, which keeps the depth of the
\* recursion logarithmic in the length of the text.
RECURSIVE SplitRange(_, _, _)
SplitRange(s, a, b) ==
    IF a > b THEN <<>>
    ELSE LET blanks  == {i \in a..b : s[i] = " "}
             Off(i)  == IF 2 * i >= a + b THEN 2 * i - (a + b) ELSE (a + b) - 2 * i
         IN  IF blanks = {} THEN <<SubSeq(s, a, b)>>
             ELSE LET m == CHOOSE i \in blanks :
                              \A j \in blanks : Off(i) < Off(j) \/ (Off(i) = Off(j) /\ i <= j)
                  IN  SplitRange(s, a, m - 1) \o SplitRange(s, m + 1, b)

Split(s) == SplitRange(s, 1, Len(s))

\* str.count(sub): the occurrences of sub that do not overlap, from the left
RECURSIVE CountFrom(_, _)
CountFrom(positions, width) ==
    IF positions = {} THEN 0
    ELSE LET first == CHOOSE i \in positions : \A j \in positions : i <= j
         IN  1 + CountFrom({j \in positions : j >= first + width}, width)

Count(s, sub) ==
    CountFrom({i \in 1..(Len(s) - Len(sub) + 1) : SubSeq(s, i, i + Len(sub) - 1) = sub},
              Len(sub))

(***************************************************************************)
(* TaskRouter._load_routing_rules.                                         *)
(***************************************************************************)
\* the categories in the order of the keys of routing_rules
CategoryOrder == <<"coding", "debug", "design", "documentation", "analysis">>

routing_rules ==
   [coding_keywords |-> <<
        <<"f", "u", "n", "c", "t", "i", "o", "n">>,
        <<"c", "l", "a", "s", "s">>,
        <<"a", "l", "g", "o", "r", "i", "t", "h", "m">>,
        <<"c", "o", "d", "e">>,
        <<"p", "r", "o", "g", "r", "a", "m">>,
        <<"s", "c", "r", "i", "p", "t">>,
        <<"a", "p", "i">>,
        <<"d", "a", "t", "a", "b", "a", "s", "e">>,
        <<"s", "q", "l">>,
        <<"p", "y", "t", "h", "o", "n">>,
        <<"j", "a", "v", "a", "s", "c", "r", "i", "p", "t">>,
        <<"r", "e", "a", "c", "t">>,
        <<"h", "t", "m", "l">>,
        <<"c", "s", "s">>,
        <<"j", "s", "o", "n">>,
        <<"x", "m", "l">>,
        <<"r", "e", "g", "e", "x">>,
        <<"l", "o", "o", "p">>,
        <<"a", "r", "r", "a", "y">> >>,
    debug_keywords |-> <<
        <<"e", "r", "r", "o", "r">>,
        <<"b", "u", "g">>,
        <<"f", "i", "x">>,
        <<"d", "e", "b", "u", "g">>,
        <<"t", "r", "o", "u", "b", "l", "e", "s", "h", "o", "o", "t">>,
        <<"i", "s", "s", "u", "e">>,
        <<"b", "r", "o", "k", "e", "n">>,
        <<"n", "o", "t", " ", "w", "o", "r", "k", "i", "n", "g">>,
        <<"p", "r", "o", "b", "l", "e", "m">>,
        <<"e", "x", "c", "e", "p", "t", "i", "o", "n">>,
        <<"c", "r", "a", "s", "h">> >>,
    design_keywords |-> <<
        <<"d", "e", "s", "i", "g", "n">>,
        <<"u", "i">>,
        <<"u", "x">>,
        <<"l", "a", "y", "o", "u", "t">>,
        <<"i", "n", "t", "e", "r", "f", "a", "c", "e">>,
        <<"m", "o", "c", "k", "u", "p">>,
        <<"w", "i", "r", "e", "f", "r", "a", "m", "e">>,
        <<"p", "r", "o", "t", "o", "t", "y", "p", "e">>,
        <<"u", "s", "e", "r", " ", "e", "x", "p", "e", "r", "i", "e", "n", "c", "e">>,
        <<"r", "e", "s", "p", "o", "n", "s", "i", "v", "e">> >>,
    documentation_keywords |-> <<
        <<"d", "o", "c", "u", "m", "e", "n", "t", "a", "t", "i", "o", "n">>,
        <<"r", "e", "a", "d", "m", "e">>,
        <<"g", "u", "i", "d", "e">>,
        <<"t", "u", "t", "o", "r", "i", "a", "l">>,
        <<"m", "a", "n", "u", "a", "l">>,
        <<"i", "n", "s", "t", "r", "u", "c", "t", "i", "o", "n", "s">>,
        <<"e", "x", "p", "l", "a", "i", "n">>,
        <<"h", "o", "w", " ", "t", "o">>,
        <<"s", "t", "e", "p", "s">>,
        <<"p", "r", "o", "c", "e", "s", "s">> >>,
    analysis_keywords |-> <<
        <<"a", "n", "a", "l", "y", "z", "e">>,
        <<"r", "e", "v", "i", "e", "w">>,
        <<"c", "o", "m", "p", "a", "r", "e">>,
        <<"e", "v", "a", "l", "u", "a", "t", "e">>,
        <<"a", "s", "s", "e", "s", "s">>,
        <<"p", "e", "r", "f", "o", "r", "m", "a", "n", "c", "e">>,
        <<"o", "p", "t", "i", "m", "i", "z", "a", "t", "i", "o", "n">>,
        <<"m", "e", "t", "r", "i", "c", "s">>,
        <<"d", "a", "t", "a">>,
        <<"r", "e", "p", "o", "r", "t">> >>]

\* the keywords of a category: routing_rules[category + "_keywords"]
Keywords(category) ==
    CASE category = "coding"        -> routing_rules.coding_keywords
      [] category = "debug"         -> routing_rules.debug_keywords
      [] category = "design"        -> routing_rules.design_keywords
      [] category = "documentation" -> routing_rules.documentation_keywords
      [] category = "analysis"      -> routing_rules.analysis_keywords

\* complexity scores are counted in units of 1/3000, in which every term
\* of _calculate_complexity is a whole number: the weights 0.1, 0.3, 0.4, 0.2
ScoreUnit == 3000

complexity_weights ==
    [word_count |-> 300, technical_terms |-> 900, code_mentions |-> 1200, multi_step |-> 600]

TechnicalTerms ==
    {<<"a", "p", "i">>,
     <<"d", "a", "t", "a", "b", "a", "s", "e">>,
     <<"a", "l", "g", "o", "r", "i", "t", "h", "m">>,
     <<"f", "r", "a", "m", "e", "w", "o", "r", "k">>,
     <<"l", "i", "b", "r", "a", "r", "y">>,
     <<"c", "l", "a", "s", "s">>,
     <<"f", "u", "n", "c", "t", "i", "o", "n">>}

StepWords ==
    <<
        <<"s", "t", "e", "p">>,
        <<"t", "h", "e", "n">>,
        <<"n", "e", "x", "t">>,
        <<"a", "f", "t", "e", "r">>,
        <<"f", "i", "r", "s", "t">>,
        <<"s", "e", "c", "o", "n", "d">> >>

\* the grave accent, which stands in the texts as one character
Backtick == "GRAVE"

CodeFence == <<Backtick, Backtick, Backtick>>

DefBlank == <<"d", "e", "f", " ">>

ClassBlank == <<"c", "l", "a", "s", "s", " ">>

(***************************************************************************)
(* TaskRouter._analyze_task and the functions it calls.                    *)
(***************************************************************************)
Min(a, b) == IF a <= b THEN a ELSE b

\* sub in text (both sequences of characters)
In(sub, text) == Contains(text, sub)

\* sum(1 for keyword in keywords if keyword in text_lower)
Score(keywords, text_lower) ==
    Cardinality({k \in 1..Len(keywords) : In(keywords[k], text_lower)})

\* category_scores, a dict whose keys are in the order of routing_rules
CategoryScores(text_lower) ==
    [category \in {CategoryOrder[k] : k \in 1..Len(CategoryOrder)} |->
        Score(Keywords(category), text_lower)]

\* a variant that keeps the last of the keys with the highest score
PrimaryCategory_LastMax(category_scores) ==
    LET best == CHOOSE k \in 1..Len(CategoryOrder) :
                   /\ \A j \in 1..Len(CategoryOrder) :
                         category_scores[CategoryOrder[j]] <= category_scores[CategoryOrder[k]]
                   /\ \A j \in (k + 1)..Len(CategoryOrder) :
                         category_scores[CategoryOrder[j]] < category_scores[CategoryOrder[k]]
    IN  CategoryOrder[best]

\* max(category_scores, key=category_scores.get): the first key, in the order
\* of insertion, whose score no other key exceeds.  category_scores has its
\* five keys whatever the text is, so the alternative "general" is never taken.
PrimaryCategory(category_scores) ==
    IF DOMAIN category_scores = {} THEN "general"
    ELSE LET best == CHOOSE k \in 1..Len(CategoryOrder) :
                        /\ \A j \in 1..Len(CategoryOrder) :
                              category_scores[CategoryOrder[j]] <= category_scores[CategoryOrder[k]]
                        /\ \A j \in 1..(k - 1) :
                              category_scores[CategoryOrder[j]] < category_scores[CategoryOrder[k]]
         IN  CategoryOrder[best]

\* a variant without the clamp of the term
Term_Unclamped(x, limit, weight) == (x * weight) \div limit

\* min(x / limit, 1.0) * weight, in units of 1/ScoreUnit
Term(x, limit, weight) == (Min(x, limit) * weight) \div limit

\* the four counts of _calculate_complexity
ComplexityCounts(request_text) ==
    LET words == Split(LowerText(request_text))
    IN  [word_count      |-> Len(Split(request_text)),
         technical_terms |-> Cardinality({i \in 1..Len(words) : words[i] \in TechnicalTerms}),
         code_indicators |-> Count(request_text, CodeFence) + Count(request_text, DefBlank)
                                + Count(request_text, ClassBlank),
         step_indicators |-> Score(StepWords, LowerText(request_text))]

\* the sum of the four weighted terms, and min(complexity, 1.0)
ComplexityOf(counts) ==
    Min(Term(counts.word_count, 100, complexity_weights.word_count)
          + Term(counts.technical_terms, 5, complexity_weights.technical_terms)
          + Term(counts.code_indicators, 3, complexity_weights.code_mentions)
          + Term(counts.step_indicators, 3, complexity_weights.multi_step),
        ScoreUnit)

CalculateComplexity(request_text) == ComplexityOf(ComplexityCounts(request_text))

\* int(len(split()) * 1.3 * (1 + complexity_score * 3))
EstimateTokens(request_text, complexity_score) ==
    (Len(Split(request_text)) * 13 * (ScoreUnit + 3 * complexity_score)) \div (10 * ScoreUnit)

AnalyzeTaskResult(request_text) ==
    LET text_lower       == LowerText(request_text)
        category_scores  == CategoryScores(text_lower)
        complexity_score == CalculateComplexity(request_text)
    IN  [category         |-> PrimaryCategory(category_scores),
         category_scores  |-> category_scores,
         complexity_score |-> complexity_score,
         estimated_tokens |-> EstimateTokens(request_text, complexity_score),
         word_count       |-> Len(Split(request_text)),
         has_code_blocks  |-> In(CodeFence, request_text) \/ In(DefBlank, request_text),
         is_multi_step    |-> \E k \in 1..Len(StepWords) : In(StepWords[k], text_lower)]

(***************************************************************************)
(* TaskRouter._calculate_priority and TaskRouter._make_routing_decision.   *)
(***************************************************************************)
TaskPriority == [LOW |-> 1, MEDIUM |-> 2, HIGH |-> 3, URGENT |-> 4]

\* tier_priority.get(tier, TaskPriority.LOW)
BasePriority(tier) ==
    CASE tier = "free"       -> TaskPriority.LOW
      [] tier = "premium"    -> TaskPriority.MEDIUM
      [] tier = "enterprise" -> TaskPriority.HIGH
      [] OTHER               -> TaskPriority.LOW

\* complexity > x, for x in tenths
Above(complexity, tenths) == 10 * complexity > tenths * ScoreUnit

\* a variant that raises the priority from 0.8 on
CalculatePriorityResult_Inclusive(user_info, analysis) ==
    LET base_priority == BasePriority(user_info.tier)
    IN  IF analysis.complexity_score * 10 >= 8 * ScoreUnit
        THEN IF base_priority = TaskPriority.LOW THEN TaskPriority.MEDIUM
             ELSE IF base_priority = TaskPriority.MEDIUM THEN TaskPriority.HIGH
             ELSE TaskPriority.URGENT
        ELSE base_priority

CalculatePriorityResult(user_info, analysis) ==
    LET base_priority == BasePriority(user_info.tier)
    IN  IF Above(analysis.complexity_score, 8)
        THEN IF base_priority = TaskPriority.LOW THEN TaskPriority.MEDIUM
             ELSE IF base_priority = TaskPriority.MEDIUM THEN TaskPriority.HIGH
             ELSE TaskPriority.URGENT
        ELSE base_priority

\* a variant that gives the advanced model to every tier
MakeRoutingDecisionResult_AnyTier(analysis, priority, user_info) ==
    LET category   == analysis.category
        complexity == analysis.complexity_score
        choice     ==
            IF category = "coding" /\ Above(complexity, 6)
            THEN [model      |-> "gpt-4",
                  max_tokens |-> IF Above(complexity, 8) THEN 2000 ELSE 1500]
            ELSE IF category = "debug"  THEN [model |-> "gpt-4", max_tokens |-> 1500]
            ELSE IF category = "design" THEN [model |-> "gpt-4", max_tokens |-> 1200]
            ELSE [model |-> "gpt-3.5-turbo", max_tokens |-> 1000]
    IN  [model                 |-> choice.model,
         max_tokens            |-> choice.max_tokens,
         temperature           |-> IF category \in {"coding", "debug"} THEN 3 ELSE 7,
         use_system_prompt     |-> TRUE,
         enable_code_execution |-> category = "coding" /\ user_info.tier = "enterprise"]

\* temperature is in tenths
MakeRoutingDecisionResult(analysis, priority, user_info) ==
    LET category   == analysis.category
        complexity == analysis.complexity_score
        choice     ==
            IF category = "coding" /\ Above(complexity, 6)
            THEN [model      |-> IF user_info.tier # "free" THEN "gpt-4" ELSE "gpt-3.5-turbo",
                  max_tokens |-> IF Above(complexity, 8) THEN 2000 ELSE 1500]
            ELSE IF category = "debug"  THEN [model |-> "gpt-4", max_tokens |-> 1500]
            ELSE IF category = "design" THEN [model |-> "gpt-4", max_tokens |-> 1200]
            ELSE [model |-> "gpt-3.5-turbo", max_tokens |-> 1000]
    IN  [model                 |-> choice.model,
         max_tokens            |-> choice.max_tokens,
         temperature           |-> IF category \in {"coding", "debug"} THEN 3 ELSE 7,
         use_system_prompt     |-> TRUE,
         enable_code_execution |-> category = "coding" /\ user_info.tier = "enterprise"]

\* f"Monthly limit exceeded ({tier_limits['monthly']} requests/month for {tier} tier)"
MonthlyError(tier) ==
    <<"Monthly", "limit", "exceeded", "(", ToString(tier_limits(tier).monthly),
      "requests/month", "for", tier, "tier", ")">>

\* f"Daily limit exceeded ({tier_limits['daily']} requests/day for {tier} tier)"
DailyError(tier) ==
    <<"Daily", "limit", "exceeded", "(", ToString(tier_limits(tier).daily),
      "requests/day", "for", tier, "tier", ")">>

RoutingFailed == <<"Task", "routing", "failed">>

(***************************************************************************)
(* Rows and tables.                                                        *)
(***************************************************************************)
\* a nullable column holds NULL or one value
NULL == <<>>

Val(v) == <<v>>

\* INSERT INTO users (phone_number, monthly_reset_date): the column defaults
NewUser(today) ==
    [tier               |-> "free",
     last_active        |-> NULL,
     total_requests     |-> 0,
     monthly_requests   |-> 0,
     monthly_reset_date |-> PlusOneMonth(today)]

\* hashlib.md5(f"{user_phone}{request_text}{datetime.now()}").hexdigest():
\* the digest is taken for injective and stands as the three parts it is
\* made of; instant is the reading of the clock
TaskHash(user_phone, request_text, instant) == <<user_phone, request_text, instant>>

\* INSERT INTO tasks (...): response, timing and outcome stay NULL
NewTask(user_phone, request_text, analysis, priority, instant, today) ==
    [user_phone      |-> user_phone,
     task_hash       |-> TaskHash(user_phone, request_text, instant),
     category        |-> analysis.category,
     priority        |-> priority,
     complexity_score |-> analysis.complexity_score,
     request_text    |-> request_text,
     tokens_used     |-> analysis.estimated_tokens,
     created_at      |-> today,
     completed_at    |-> NULL,
     processing_time |-> NULL,
     success         |-> NULL,
     response_text   |-> NULL]

\* request.values.get('Body', ''): the texts of the inbound messages
InboundTexts == {<<"c", "o", "d", "e">>}

\* the text of the requests made before the first state
OldText == <<"f", "i", "x">>

\* the text the Django deployment hands to route_task: user.tier
TierText(tier) ==
    CASE tier = "free"       -> <<"f", "r", "e", "e">>
      [] tier = "premium"    -> <<"p", "r", "e", "m", "i", "u", "m">>
      [] tier = "enterprise" -> <<"e", "n", "t", "e", "r", "p", "r", "i", "s", "e">>

\* _analyze_task on the texts that reach route_task
RoutedTexts == InboundTexts \cup {OldText} \cup {TierText(tier) : tier \in Tiers}

RoutedAnalysis == [request_text \in RoutedTexts |-> AnalyzeTaskResult(request_text)]

\* the row _create_task_record inserts for a request of a user
TaskRecord(user_info, request_text, instant, today) ==
    LET analysis == RoutedAnalysis[request_text]
    IN  NewTask(user_info.phone_number, request_text, analysis,
                CalculatePriorityResult(user_info, analysis), instant, today)

\* task_hash TEXT UNIQUE: the INSERT of the row is rejected
DuplicateHash(tbl, row) == \E i \in 1..Len(tbl) : tbl[i].task_hash = row.task_hash

DuplicateTask == "UNIQUE constraint failed: tasks.task_hash"

\* a variant that forgets the date
DailyRequestCount_AnyDay(tbl, phone, today) ==
    Cardinality({i \in 1..Len(tbl) : tbl[i].user_phone = phone})

\* SELECT COUNT(*) FROM tasks WHERE user_phone = ? AND date(created_at) = date('now')
DailyRequestCount(tbl, phone, today) ==
    Cardinality({i \in 1..Len(tbl) :
                    tbl[i].user_phone = phone /\ tbl[i].created_at = today})

\* the dict a call of _update_user_activity returns
UserInfo(phone, row) ==
    [phone_number     |-> phone,
     tier             |-> row.tier,
     total_requests   |-> row.total_requests,
     monthly_requests |-> row.monthly_requests]

NoUserInfo == UserInfo("", NewUser(NoDate))

(***************************************************************************)
(* _check_rate_limits as a function of what it reads.                      *)
(***************************************************************************)
\* a variant that lets the request at the limit through
CheckRateLimitsResult_Above(user_info, daily_count) ==
    LET tl == tier_limits(user_info.tier)
    IN  IF user_info.monthly_requests > tl.monthly
        THEN [allowed |-> FALSE, error |-> MonthlyError(user_info.tier),
              upgrade_suggestion |-> TRUE]
        ELSE IF daily_count >= tl.daily
        THEN [allowed |-> FALSE, error |-> DailyError(user_info.tier),
              retry_after |-> "24 hours"]
        ELSE [allowed |-> TRUE]

CheckRateLimitsResult(user_info, daily_count) ==
    LET tl == tier_limits(user_info.tier)
    IN  IF user_info.monthly_requests >= tl.monthly
        THEN [allowed |-> FALSE, error |-> MonthlyError(user_info.tier),
              upgrade_suggestion |-> TRUE]
        ELSE IF daily_count >= tl.daily
        THEN [allowed |-> FALSE, error |-> DailyError(user_info.tier),
              retry_after |-> "24 hours"]
        ELSE [allowed |-> TRUE]

(***************************************************************************)
(* complete_task: one UPDATE of the row with that id and two metric rows.  *)
(***************************************************************************)
CompletedTasks(tbl, task_id, response_text, processing_time, success, today) ==
    [i \in 1..Len(tbl) |->
        IF i = task_id
        THEN [tbl[i] EXCEPT !.completed_at = Val(today),
                            !.processing_time = Val(processing_time),
                            !.success = Val(success),
                            !.response_text = Val(response_text)]
        ELSE tbl[i]]

CompletedMetrics(m, processing_time, success) ==
    m (+) SetToBag({[metric_name |-> "processing_time", metric_value |-> processing_time]})
      (+) SetToBag({[metric_name |-> "success_rate",
                     metric_value |-> IF success THEN 1 ELSE 0]})

(***************************************************************************)
(* The decorator enhanced_rate_limit, given what route_task returned:      *)
(* whether it answers the sender itself, and what it leaves in             *)
(* request.routing_info for sms_reply.                                     *)
(***************************************************************************)
None == [none |-> TRUE]

RouteError == [success |-> FALSE, error |-> RoutingFailed, fallback_to_basic |-> TRUE]

\* route_task did not return: _log_error raised inside its except block
RouteRaised == [exception |-> "OperationalError"]

RouteOk(task_id, user_info) ==
    [success |-> TRUE, task_id |-> task_id, user_tier |-> user_info.tier]

EnhancedRateLimit(routing_result) ==
    IF "success" \notin DOMAIN routing_result
    THEN \* routing_result["success"] raises KeyError: "Continue with fallback"
         [respond |-> FALSE, routing_info |-> None]
    ELSE IF ~routing_result.success
    THEN IF Contains(Lower(routing_result.error), <<"rate", "limit">>)
         THEN [respond |-> TRUE, routing_info |-> None]
         ELSE [respond |-> FALSE, routing_info |-> routing_result]
    ELSE [respond |-> FALSE, routing_info |-> routing_result]

(***************************************************************************)
(* The initial state: the store as earlier requests left it, and no        *)
(* request in flight.  One known free-tier user is close to the limits.    *)
(***************************************************************************)
StartDate == <<2025, 1, 31>>

\* the last day of the model: no midnight passes after it
EndDate == <<2025, 2, 1>>

KnownPhone == "+15550001"

\* a task of an earlier request, routed and finalized on that day
OldTask(phone, day, instant) ==
    [TaskRecord([phone_number |-> phone, tier |-> "free"], OldText, instant, day)
        EXCEPT !.completed_at = Val(day),
                                !.processing_time = Val(1),
                                !.success = Val(TRUE),
                                !.response_text = Val("summary")]

\* n tasks of the known user made today after one made the day before
InitTasks(n) ==
    [i \in 1..(n + 1) |->
        IF i = 1 THEN OldTask(KnownPhone, <<2025, 1, 30>>, i)
        ELSE OldTask(KnownPhone, StartDate, i)]

\* the Django deployment, before any request
DjInitReq == [pc |-> "idle", from_number |-> "", body |-> "", user |-> <<>>]

\* the instants at which the Django deployment is observed, in order
DjInstants ==
    << <<2025, 11, 30, 12>>, <<2025, 12, 1, 0>>, <<2025, 12, 31, 12>>, <<2026, 1, 1, 12>> >>

DjangoIdle ==
    /\ dj_now = DjInstants[1]
    /\ dj_users = <<>>
    /\ dj_tasks = <<>>
    /\ dj_error_logs = EmptyBag
    /\ dj_req = [c \in Calls |-> DjInitReq]
    /\ dj_db_up = TRUE

\* nothing under analysis, nothing being rendered
AnalysisIdle == an = <<>>

NotifierIdle == rendered = <<>>

\* the notifier's dispatch and alerting, which the web handlers never touch
dispatch == <<quiet, user_preferences, notification_templates,
              notification_history, config, clock_hour, send, delivered,
              alert_rules, alert_clock, sweep>>

\* the overlapping sweeps, the alert timer and the fallback limiter
background == <<sweepers, monitor, request_timestamps, wall_clock, limited>>

BackgroundIdle ==
    /\ sweepers = <<>>
    /\ monitor = <<>>
    /\ request_timestamps = <<>>
    /\ wall_clock = 0
    /\ limited = <<>>

DispatchIdle ==
    /\ quiet = <<>>
    /\ user_preferences = <<>>
    /\ notification_templates = {}
    /\ notification_history = <<>>
    /\ config = <<>>
    /\ clock_hour = 0
    /\ send = <<>>
    /\ delivered = <<>>
    /\ alert_rules = <<>>
    /\ alert_clock = 0
    /\ sweep = <<>>

InitReq ==
    [pc             |-> "idle",
     from_number    |-> "",
     user           |-> FALSE,
     user_info      |-> NoUserInfo,
     e              |-> None,
     routing_result |-> None,
     routing_info   |-> None,
     task_id        |-> 0,
     result         |-> "",
     elapsed        |-> 0,
     response       |-> ""]

Init ==
    /\ now = StartDate
    /\ \E m \in {limits["free"].monthly - 3, limits["free"].monthly - 2} :
          users = [p \in {KnownPhone} |->
                     [tier               |-> "free",
                      last_active        |-> Val(StartDate),
                      total_requests     |-> m,
                      monthly_requests   |-> m,
                      monthly_reset_date |-> PlusOneMonth(<<2025, 1, 1>>)]]
    /\ tasks = InitTasks(limits["free"].daily - 1)
    /\ system_metrics = EmptyBag
    /\ error_logs = EmptyBag
    /\ cursor_agent \in BOOLEAN
    /\ twilio_client \in BOOLEAN
    /\ req = [c \in Calls |-> InitReq]
    /\ db_up = TRUE
    /\ DjangoIdle
    /\ AnalysisIdle
    /\ NotifierIdle
    /\ DispatchIdle
    /\ BackgroundIdle

store == <<users, tasks, system_metrics, error_logs>>

clients == <<cursor_agent, twilio_client>>

django == <<dj_now, dj_users, dj_tasks, dj_error_logs, dj_req, dj_db_up>>

(***************************************************************************)
(* sms_reply, the handler the decorator wraps.                             *)
(***************************************************************************)
\* task_id = routing_info.get("task_id") if routing_info and routing_info.get("success")
TaskIdOf(routing_info) ==
    IF "success" \in DOMAIN routing_info /\ routing_info.success
    THEN routing_info.task_id
    ELSE 0

\* a request that has been answered: its locals are gone
Returned(response) == [InitReq EXCEPT !.pc = "done", !.response = response]

\* sms_reply up to its first write to the store: without both clients it
\* answers 500; otherwise it calls cursor_agent.create_task (success) and,
\* when that succeeded, sends the summary through Twilio, which raises
\* unless sent
SmsReply(r, success, sent) ==
    IF ~cursor_agent \/ ~twilio_client
    THEN Returned("500")
    ELSE [r EXCEPT !.task_id = TaskIdOf(r.routing_info),
                   !.result = IF success THEN "success" ELSE "failed",
                   !.elapsed = @ + 1,
                   !.pc = IF ~success THEN "failed"
                          ELSE IF sent THEN "sent" ELSE "except"]

\* the rest of the request once route_task has returned routing_result:
\* the decorator answers the sender itself or calls sms_reply
Routed(c, routing_result) ==
    LET d == EnhancedRateLimit(routing_result)
        r == [req[c] EXCEPT !.user = FALSE,
                            !.user_info = NoUserInfo,
                            !.e = None,
                            !.routing_result = routing_result,
                            !.routing_info = d.routing_info]
    IN  IF d.respond
        THEN req' = [req EXCEPT ![c] = Returned("denial")]
        ELSE \E success \in BOOLEAN, sent \in BOOLEAN :
                req' = [req EXCEPT ![c] = SmsReply(r, success, sent)]

(***************************************************************************)
(* route_task, step by step.  Every step opens its own connection to the   *)
(* store; while the store is down the statement raises, route_task catches *)
(* the exception and calls _log_error.                                     *)
(***************************************************************************)
\* the exception caught as e: str(e), and the line of route_task it came from
Caught(message, lineno) == [message |-> message, lineno |-> lineno]

DatabaseLocked == "database is locked"

DuplicateUser == "UNIQUE constraint failed: users.phone_number"

\* datetime.now() as call c reads it in _create_task_record: an instant
\* later than every reading before it, or the very instant at which a call
\* that is still being handled has read the clock for its own row
ClockReadings(c) ==
    LET taken == {0} \cup {tasks[i].task_hash[3] : i \in 1..Len(tasks)}
    IN  {1 + (CHOOSE x \in taken : \A y \in taken : y <= x)}
           \cup {tasks[req[d].task_id].task_hash[3] :
                      d \in {e \in Calls : e # c /\ req[e].task_id \in 1..Len(tasks)}}

\* an inbound message reaches the decorator, route_task is called with
\* request.values.get('From') and _update_user_activity looks the user up:
\* SELECT * FROM users WHERE phone_number = ?
SelectUser(c) ==
    /\ req[c].pc = "idle"
    /\ \E phone \in Phones :
          req' = [req EXCEPT ![c] =
                    IF db_up
                    THEN [@ EXCEPT !.pc = "update",
                                   !.from_number = phone,
                                   !.user = (phone \in DOMAIN users)]
                    ELSE [@ EXCEPT !.pc = "log",
                                   !.from_number = phone,
                                   !.e = Caught(DatabaseLocked, 146)]]
    /\ UNCHANGED <<now, store, clients, django, db_up, an, rendered, dispatch, background>>

\* a variant that forgets total_requests
UpdatedUser_MonthlyOnly(row, today) ==
    [row EXCEPT !.last_active = Val(today),
                !.monthly_requests = @ + 1]

\* UPDATE users SET last_active, total_requests + 1, monthly_requests + 1
UpdatedUser(row, today) ==
    [row EXCEPT !.last_active = Val(today),
                !.total_requests = @ + 1,
                !.monthly_requests = @ + 1]

\* _update_user_activity: the write transaction (UPDATE or INSERT, the SELECT
\* of the row, commit).  An INSERT of a phone number another call inserted
\* meanwhile violates the primary key: route_task logs the error and returns
\* its failure result.
UpdateUserActivity(c) ==
    LET phone == req[c].from_number
    IN  /\ req[c].pc = "update"
        /\ IF ~db_up
           THEN /\ req' = [req EXCEPT ![c] = [@ EXCEPT !.pc = "log",
                              !.e = Caught(DatabaseLocked, 146)]]
                /\ UNCHANGED users
           ELSE IF req[c].user
           THEN /\ users' = [users EXCEPT ![phone] = UpdatedUser(@, now)]
                /\ req' = [req EXCEPT ![c] = [@ EXCEPT !.pc = "check",
                              !.user_info = UserInfo(phone, users'[phone])]]
           ELSE IF phone \notin DOMAIN users
           THEN /\ users' = [p \in DOMAIN users \cup {phone} |->
                               IF p = phone THEN NewUser(now) ELSE users[p]]
                /\ req' = [req EXCEPT ![c] = [@ EXCEPT !.pc = "check",
                              !.user_info = UserInfo(phone, users'[phone])]]
           ELSE /\ req' = [req EXCEPT ![c] = [@ EXCEPT !.pc = "log",
                              !.e = Caught(DuplicateUser, 146)]]
                /\ UNCHANGED users
        /\ UNCHANGED <<now, tasks, system_metrics, error_logs, clients, django, db_up, an, rendered, dispatch, background>>

\* a variant that creates the task record before it checks the limits
CheckRateLimits_CreateFirst(c) ==
    LET rate_limit_check ==
            CheckRateLimitsResult(req[c].user_info,
                                  DailyRequestCount(tasks, req[c].from_number, now))
    IN  /\ req[c].pc = "check"
        /\ \E request_text \in InboundTexts, instant \in ClockReadings(c) :
              tasks' = Append(tasks, TaskRecord(req[c].user_info, request_text, instant, now))
        /\ IF rate_limit_check.allowed
           THEN Routed(c, RouteOk(Len(tasks'), req[c].user_info))
           ELSE Routed(c, rate_limit_check)
        /\ UNCHANGED <<now, users, system_metrics, error_logs, clients, django, db_up, an, rendered, dispatch, background>>

\* _check_rate_limits with the count of _get_daily_request_count, which is
\* read only when the monthly test passes; a denial is what route_task returns
CheckRateLimits(c) ==
    LET rate_limit_check ==
            CheckRateLimitsResult(req[c].user_info,
                                  DailyRequestCount(tasks, req[c].from_number, now))
    IN  /\ req[c].pc = "check"
        /\ IF ~db_up /\ CheckRateLimitsResult(req[c].user_info, 0).allowed
           THEN req' = [req EXCEPT ![c] = [@ EXCEPT !.pc = "log",
                           !.e = Caught(DatabaseLocked, 152)]]
           ELSE IF rate_limit_check.allowed
           THEN req' = [req EXCEPT ![c] = [@ EXCEPT !.pc = "create"]]
           ELSE Routed(c, rate_limit_check)
        /\ UNCHANGED <<now, store, clients, django, db_up, an, rendered, dispatch, background>>

\* _create_task_record with the text of the request and the instant it reads
\* from the clock, and the result route_task returns after it
CreateTaskRecord(c) ==
    /\ req[c].pc = "create"
    /\ IF ~db_up
       THEN /\ req' = [req EXCEPT ![c] = [@ EXCEPT !.pc = "log",
                          !.e = Caught(DatabaseLocked, 160)]]
            /\ UNCHANGED tasks
       ELSE \E request_text \in InboundTexts, instant \in ClockReadings(c) :
               LET row == TaskRecord(req[c].user_info, request_text, instant, now)
               IN  IF DuplicateHash(tasks, row)
                   THEN /\ req' = [req EXCEPT ![c] = [@ EXCEPT !.pc = "log",
                                      !.e = Caught(DuplicateTask, 160)]]
                        /\ UNCHANGED tasks
                   ELSE /\ tasks' = Append(tasks, row)
                        /\ Routed(c, RouteOk(Len(tasks'), req[c].user_info))
    /\ UNCHANGED <<now, users, system_metrics, error_logs, clients, django, db_up, an, rendered, dispatch, background>>

\* except Exception as e: _log_error(user_phone, "ROUTING_ERROR", str(e), ...)
\* and the failure result; when the INSERT of _log_error raises too, the
\* exception leaves route_task
LogError(c) ==
    /\ req[c].pc = "log"
    /\ IF db_up
       THEN /\ error_logs' = error_logs (+) SetToBag(
                               {[user_phone    |-> req[c].from_number,
                                 error_type    |-> "ROUTING_ERROR",
                                 error_message |-> req[c].e.message]})
            /\ Routed(c, RouteError)
       ELSE /\ Routed(c, RouteRaised)
            /\ UNCHANGED error_logs
    /\ UNCHANGED <<now, users, tasks, system_metrics, clients, django, db_up, an, rendered, dispatch, background>>

(***************************************************************************)
(* sms_reply: the writes to the store.                                     *)
(***************************************************************************)
\* complete_task raises: there is a task to complete and the store is down
CompleteTaskRaises(c) == req[c].task_id # 0 /\ ~db_up

\* if task_id and task_router: task_router.complete_task(task_id, ...)
CompleteTask(c, response_text, success) ==
    IF CompleteTaskRaises(c)
    THEN UNCHANGED <<tasks, system_metrics>>
    ELSE IF req[c].task_id # 0
    THEN /\ tasks' = CompletedTasks(tasks, req[c].task_id, response_text,
                                    req[c].elapsed + 1, success, now)
         /\ system_metrics' = CompletedMetrics(system_metrics, req[c].elapsed + 1, success)
    ELSE UNCHANGED <<tasks, system_metrics>>

\* if not result["success"]: complete_task(task_id, "", processing_time, False)
\* and the apology through Twilio; either may raise
TaskFailed(c) ==
    /\ req[c].pc = "failed"
    /\ CompleteTask(c, "", FALSE)
    /\ \E sent \in BOOLEAN :
          req' = [req EXCEPT ![c] =
                    IF sent /\ ~CompleteTaskRaises(c) THEN Returned("twiml")
                    ELSE [@ EXCEPT !.elapsed = @ + 1, !.pc = "except"]]
    /\ UNCHANGED <<now, users, error_logs, clients, django, db_up, an, rendered, dispatch, background>>

\* Step 5: complete_task(task_id, sms_friendly_text, processing_time, True)
TaskSucceeded(c) ==
    /\ req[c].pc = "sent"
    /\ CompleteTask(c, "summary", TRUE)
    /\ req' = [req EXCEPT ![c] =
                 IF CompleteTaskRaises(c)
                 THEN [@ EXCEPT !.elapsed = @ + 1, !.pc = "except"]
                 ELSE Returned("twiml")]
    /\ UNCHANGED <<now, users, error_logs, clients, django, db_up, an, rendered, dispatch, background>>

\* except Exception: complete_task(task_id, "", processing_time, False), the
\* apology and the empty TwiML; an exception of complete_task leaves the
\* handler
UnexpectedError(c) ==
    /\ req[c].pc = "except"
    /\ CompleteTask(c, "", FALSE)
    /\ req' = [req EXCEPT ![c] =
                 IF CompleteTaskRaises(c) THEN Returned("500") ELSE Returned("twiml")]
    /\ UNCHANGED <<now, users, error_logs, clients, django, db_up, an, rendered, dispatch, background>>

\* midnight passes, between two requests
Tick ==
    /\ DateNum(now) < DateNum(EndDate)
    /\ \A c \in Calls : req[c].pc \in {"idle", "done"}
    /\ now' = NextDay(now)
    /\ UNCHANGED <<store, clients, req, django, db_up, an, rendered, dispatch, background>>

Next ==
    \/ Tick
    \/ \E c \in Calls :
          \/ SelectUser(c)
          \/ UpdateUserActivity(c)
          \/ CheckRateLimits(c)
          \/ CreateTaskRecord(c)
          \/ LogError(c)
          \/ TaskFailed(c)
          \/ TaskSucceeded(c)
          \/ UnexpectedError(c)

Spec == Init /\ [][Next]_vars

(***************************************************************************)
(* The store of the router fails and recovers at any moment (locked by     *)
(* another writer, disk full, file not reachable).                         *)
(***************************************************************************)
DbFails ==
    /\ db_up
    /\ db_up' = FALSE
    /\ UNCHANGED <<now, store, clients, req, django, an, rendered, dispatch, background>>

DbRecovers ==
    /\ ~db_up
    /\ db_up' = TRUE
    /\ UNCHANGED <<now, store, clients, req, django, an, rendered, dispatch, background>>

FaultInit ==
    /\ now = StartDate
    /\ users = [p \in {KnownPhone} |->
                  [tier               |-> "free",
                   last_active        |-> Val(StartDate),
                   total_requests     |-> limits["free"].monthly - 3,
                   monthly_requests   |-> limits["free"].monthly - 3,
                   monthly_reset_date |-> PlusOneMonth(<<2025, 1, 1>>)]]
    /\ tasks = InitTasks(limits["free"].daily - 1)
    /\ system_metrics = EmptyBag
    /\ error_logs = EmptyBag
    /\ cursor_agent = TRUE
    /\ twilio_client = TRUE
    /\ req = [c \in Calls |-> InitReq]
    /\ db_up \in BOOLEAN
    /\ DjangoIdle
    /\ AnalysisIdle
    /\ NotifierIdle
    /\ DispatchIdle
    /\ BackgroundIdle

\* no other request is in flight
Alone(c) == \A d \in Calls \ {c} : req[d].pc \in {"idle", "done"}

\* the messages arrive one after another
FaultNext ==
    \/ DbFails
    \/ DbRecovers
    \/ \E c \in Calls : Alone(c) /\ SelectUser(c)
    \/ \E c \in Calls : Alone(c) /\ UpdateUserActivity(c)
    \/ \E c \in Calls : Alone(c) /\ CheckRateLimits(c)
    \/ \E c \in Calls : Alone(c) /\ CreateTaskRecord(c)
    \/ \E c \in Calls : Alone(c) /\ LogError(c)
    \/ \E c \in Calls : Alone(c) /\ TaskFailed(c)
    \/ \E c \in Calls : Alone(c) /\ TaskSucceeded(c)
    \/ \E c \in Calls : Alone(c) /\ UnexpectedError(c)

SpecFaults == FaultInit /\ [][FaultNext]_vars

(***************************************************************************)
(* The quota check at the limits of every tier: one message of a user      *)
(* whose counters lie around the limits of the tier.                       *)
(***************************************************************************)
OtherPhone == "+15550002"

\* monthly_requests before the call counts itself
QuotaMonthly(tier) ==
    {0} \cup ((limits[tier].monthly - Slack - 1)..(limits[tier].monthly + Slack))

\* the tasks the user made today
QuotaDaily(tier) ==
    {0} \cup ((limits[tier].daily - Slack)..(limits[tier].daily + Slack))

\* the tasks of InitTasks(n) and one made today by the other user
QuotaTasks(n) == Append(InitTasks(n), OldTask(OtherPhone, StartDate, n + 2))

QuotaInit ==
    /\ now = StartDate
    /\ \E tier \in Tiers :
          /\ \E m \in QuotaMonthly(tier) :
                users = [p \in Phones |->
                           [tier               |-> IF p = KnownPhone THEN tier ELSE "free",
                            last_active        |-> Val(StartDate),
                            total_requests     |-> IF p = KnownPhone THEN m ELSE 1,
                            monthly_requests   |-> IF p = KnownPhone THEN m ELSE 1,
                            monthly_reset_date |-> PlusOneMonth(<<2025, 1, 1>>)]]
          /\ \E n \in QuotaDaily(tier) : tasks = QuotaTasks(n)
    /\ system_metrics = EmptyBag
    /\ error_logs = EmptyBag
    /\ cursor_agent = TRUE
    /\ twilio_client = TRUE
    /\ req = [c \in Calls |-> InitReq]
    /\ db_up = TRUE
    /\ DjangoIdle
    /\ AnalysisIdle
    /\ NotifierIdle
    /\ DispatchIdle
    /\ BackgroundIdle

\* the one message; the store is up and both users exist, so that
\* route_task never reaches its except block
QuotaNext ==
    \E c \in {1} :
        \/ SelectUser(c)
        \/ UpdateUserActivity(c)
        \/ CheckRateLimits(c)
        \/ CreateTaskRecord(c)
        \/ TaskFailed(c)
        \/ TaskSucceeded(c)
        \/ UnexpectedError(c)

SpecQuota == QuotaInit /\ [][QuotaNext]_vars

(***************************************************************************)
(* The Django deployment: core.views.sms_receive on core.models.User and   *)
(* core.models.Task.  A request holds the User object it loaded; each      *)
(* save() writes the object to the row.                                    *)
(***************************************************************************)
\* a total order on instants <<year, month, day, hour>>
DjNum(t) == ((t[1] * 12 + (t[2] - 1)) * 31 + (t[3] - 1)) * 24 + t[4]

DjLE(a, b) == DjNum(a) <= DjNum(b)

\* date(...) of an instant
DateOf(t) == <<t[1], t[2], t[3]>>

\* now.replace(year=now.year + 1, month=1, day=1) in December,
\* now.replace(month=now.month + 1, day=1) otherwise
DjNextReset(t) ==
    IF t[2] = 12 THEN <<t[1] + 1, 1, 1, t[4]>>
    ELSE <<t[1], t[2] + 1, 1, t[4]>>

\* User.rate_limit
DjRateLimit(tier) ==
    CASE tier = "free"       -> 10
      [] tier = "premium"    -> 100
      [] tier = "enterprise" -> 1000
      [] OTHER               -> 10

\* from_number.replace('+1', '').replace('+', '')
DjPhone(from_number) ==
    CASE from_number = "+15550001" -> "5550001"
      [] from_number = "+15550002" -> "5550002"
      [] OTHER                     -> from_number

\* request.POST.get('Body', '').strip()
Bodies == {"", "hello"}

\* User.objects.get_or_create(phone_number, defaults={tier, last_active}):
\* the row a create inserts
DjNewUser(t) ==
    [tier             |-> "free",
     last_active      |-> t,
     total_requests   |-> 0,
     monthly_requests |-> 0,
     rate_limit_reset |-> t]

\* Task.objects.create(...) and task.mark_completed(success)
DjNewTask(phone, body, success, t) ==
    [user_phone   |-> phone,
     sms_content  |-> body,
     success      |-> success,
     created_at   |-> t,
     completed_at |-> Val(t)]

\* an exception of the database reaches the except block of sms_receive
DjRaised(r) == [r EXCEPT !.pc = "error"]

\* sms_receive up to the User it works on; without From or Body it answers 400
DjGetOrCreate(c) ==
    /\ dj_req[c].pc = "idle"
    /\ \E from_number \in Phones, body \in Bodies :
          LET phone == DjPhone(from_number)
              row   == IF phone \in DOMAIN dj_users THEN dj_users[phone]
                       ELSE DjNewUser(dj_now)
          IN  IF body = ""
              THEN /\ dj_req' = [dj_req EXCEPT ![c] = [DjInitReq EXCEPT !.pc = "done"]]
                   /\ UNCHANGED dj_users
              ELSE IF ~dj_db_up
              THEN /\ dj_req' = [dj_req EXCEPT ![c] =
                                   DjRaised([DjInitReq EXCEPT !.from_number = from_number,
                                                              !.body = body])]
                   /\ UNCHANGED dj_users
              ELSE /\ dj_users' = [q \in DOMAIN dj_users \cup {phone} |->
                                     IF q = phone THEN row ELSE dj_users[q]]
                   /\ dj_req' = [dj_req EXCEPT ![c] =
                                   [pc |-> "check", from_number |-> from_number,
                                    body |-> body, user |-> row]]
    /\ UNCHANGED <<dj_now, dj_tasks, dj_error_logs, now, store, clients, req, db_up, dj_db_up, an, rendered, dispatch, background>>

\* check_rate_limit(user) on the object of the request, and the answer of
\* sms_receive when it denies.  When user.save() raises, the except block of
\* check_rate_limit returns True.
DjCheckRateLimit(c) ==
    LET user  == dj_req[c].user
        phone == DjPhone(dj_req[c].from_number)
        due   == dj_req[c].pc = "check" /\ DjLE(user.rate_limit_reset, dj_now)
        saved == IF due
                 THEN [user EXCEPT !.monthly_requests = 0,
                                   !.rate_limit_reset = DjNextReset(dj_now)]
                 ELSE user
    IN  /\ dj_req[c].pc = "check"
        /\ dj_users' = IF due /\ dj_db_up
                       THEN [dj_users EXCEPT ![phone] = saved]
                       ELSE dj_users
        /\ dj_req' = [dj_req EXCEPT ![c] =
                        IF (due /\ ~dj_db_up)
                              \/ saved.monthly_requests < DjRateLimit(saved.tier)
                        THEN [@ EXCEPT !.pc = "task", !.user = saved]
                        ELSE [DjInitReq EXCEPT !.pc = "done"]]
        /\ UNCHANGED <<dj_now, dj_tasks, dj_error_logs, now, store, clients, req, db_up, dj_db_up, an, rendered, dispatch, background>>

\* task_router.route_task(message, user.tier) as process_with_ai calls it:
\* the message is what the router takes for the phone number.  Its three
\* transactions are taken together here.
DjRouted(message, tier, today) ==
    LET registered == [q \in DOMAIN users \cup {message} |->
                         IF q # message THEN users[q]
                         ELSE IF message \in DOMAIN users
                         THEN UpdatedUser(users[message], today)
                         ELSE NewUser(today)]
        rate_limit_check ==
            CheckRateLimitsResult(UserInfo(message, registered[message]),
                                  DailyRequestCount(tasks, message, today))
    IN  [users |-> registered,
         tasks |-> IF rate_limit_check.allowed
                   THEN Append(tasks,
                               TaskRecord(UserInfo(message, registered[message]), TierText(tier),
                                          1 + Len(tasks), today))
                   ELSE tasks]

\* Task.objects.create, process_with_ai (or the fallback answer without the
\* AI components), task.mark_completed, and ErrorLog.log_error when the AI
\* failed
DjProcessTask(c) ==
    LET phone == DjPhone(dj_req[c].from_number)
    IN  /\ dj_req[c].pc = "task"
        /\ IF ~dj_db_up
           THEN /\ dj_req' = [dj_req EXCEPT ![c] = DjRaised(@)]
                /\ UNCHANGED <<dj_tasks, dj_error_logs, users, tasks>>
           ELSE /\ \E success \in BOOLEAN :
                      /\ ~cursor_agent => success
                      /\ dj_tasks' = Append(dj_tasks,
                                        DjNewTask(phone, dj_req[c].body, success, dj_now))
                      /\ dj_error_logs' =
                            IF success THEN dj_error_logs
                            ELSE dj_error_logs (+) SetToBag(
                                    {[user_phone |-> phone, error_type |-> "ai_error"]})
                /\ IF cursor_agent
                   THEN /\ users' = DjRouted(dj_req[c].body, dj_req[c].user.tier, DateOf(dj_now)).users
                        /\ tasks' = DjRouted(dj_req[c].body, dj_req[c].user.tier, DateOf(dj_now)).tasks
                   ELSE UNCHANGED <<users, tasks>>
                /\ dj_req' = [dj_req EXCEPT ![c] = [@ EXCEPT !.pc = "count"]]
        /\ UNCHANGED <<dj_now, dj_users, now, system_metrics, error_logs, clients, req, db_up, dj_db_up, an, rendered, dispatch, background>>

\* user.increment_requests(): the counters of the object plus one, saved
\* with update_fields total_requests, monthly_requests, last_active
DjIncrementRequests(c) ==
    LET user  == dj_req[c].user
        phone == DjPhone(dj_req[c].from_number)
    IN  /\ dj_req[c].pc = "count"
        /\ IF ~dj_db_up
           THEN /\ dj_req' = [dj_req EXCEPT ![c] = DjRaised(@)]
                /\ UNCHANGED dj_users
           ELSE /\ dj_users' = [dj_users EXCEPT ![phone] =
                                  [@ EXCEPT !.total_requests = user.total_requests + 1,
                                            !.monthly_requests = user.monthly_requests + 1,
                                            !.last_active = dj_now]]
                /\ dj_req' = [dj_req EXCEPT ![c] = [DjInitReq EXCEPT !.pc = "done"]]
        /\ UNCHANGED <<dj_now, dj_tasks, dj_error_logs, now, store, clients, req, db_up, dj_db_up, an, rendered, dispatch, background>>

\* except Exception: ErrorLog.log_error(error_type='sms_error', ...) and the
\* answer 500; when the INSERT raises too, the exception leaves the view
DjLogError(c) ==
    /\ dj_req[c].pc = "error"
    /\ dj_error_logs' =
          IF dj_db_up
          THEN dj_error_logs (+) SetToBag({[user_phone |-> "", error_type |-> "sms_error"]})
          ELSE dj_error_logs
    /\ dj_req' = [dj_req EXCEPT ![c] = [DjInitReq EXCEPT !.pc = "done"]]
    /\ UNCHANGED <<dj_now, dj_users, dj_tasks, now, store, clients, req, db_up, dj_db_up, an, rendered, dispatch, background>>

\* time passes to the next instant observed, between two requests
DjTick ==
    /\ \A c \in Calls : dj_req[c].pc \in {"idle", "done"}
    /\ \E i \in 1..(Len(DjInstants) - 1) :
          dj_now = DjInstants[i] /\ dj_now' = DjInstants[i + 1]
    /\ UNCHANGED <<dj_users, dj_tasks, dj_error_logs, dj_req, now, store, clients, req, db_up, dj_db_up, an, rendered, dispatch, background>>

DjKnownUser ==
    [tier             |-> "free",
     last_active      |-> <<2025, 11, 1, 0>>,
     total_requests   |-> DjRateLimit("free") - 1,
     monthly_requests |-> DjRateLimit("free") - 1,
     rate_limit_reset |-> <<2025, 12, 1, 0>>]

DjInit ==
    /\ now = StartDate
    /\ users = <<>>
    /\ tasks = <<>>
    /\ system_metrics = EmptyBag
    /\ error_logs = EmptyBag
    /\ cursor_agent \in BOOLEAN
    /\ twilio_client = TRUE
    /\ req = [c \in Calls |-> InitReq]
    /\ db_up = TRUE
    /\ AnalysisIdle
    /\ NotifierIdle
    /\ DispatchIdle
    /\ BackgroundIdle
    /\ dj_now = DjInstants[1]
    /\ dj_users \in {<<>>, [p \in {DjPhone(KnownPhone)} |-> DjKnownUser]}
    /\ dj_tasks = <<>>
    /\ dj_error_logs = EmptyBag
    /\ dj_req = [c \in Calls |-> DjInitReq]
    /\ dj_db_up = TRUE

DjNext ==
    \/ DjTick
    \/ \E c \in Calls :
          \/ DjGetOrCreate(c)
          \/ DjCheckRateLimit(c)
          \/ DjProcessTask(c)
          \/ DjIncrementRequests(c)

SpecDjango == DjInit /\ [][DjNext]_vars

(***************************************************************************)
(* The Django deployment with a database that fails and recovers at any    *)
(* moment; the messages arrive one after another, at the first instant.    *)
(***************************************************************************)
DjDbFails ==
    /\ dj_db_up
    /\ dj_db_up' = FALSE
    /\ UNCHANGED <<dj_now, dj_users, dj_tasks, dj_error_logs, dj_req, now, store,
                   clients, req, db_up, an, rendered, dispatch, background>>

DjDbRecovers ==
    /\ ~dj_db_up
    /\ dj_db_up' = TRUE
    /\ UNCHANGED <<dj_now, dj_users, dj_tasks, dj_error_logs, dj_req, now, store,
                   clients, req, db_up, an, rendered, dispatch, background>>

DjAlone(c) == \A d \in Calls \ {c} : dj_req[d].pc \in {"idle", "done"}

DjFaultNext ==
    \/ DjDbFails
    \/ DjDbRecovers
    \/ \E c \in Calls : DjAlone(c) /\ DjGetOrCreate(c)
    \/ \E c \in Calls : DjAlone(c) /\ DjCheckRateLimit(c)
    \/ \E c \in Calls : DjAlone(c) /\ DjProcessTask(c)
    \/ \E c \in Calls : DjAlone(c) /\ DjIncrementRequests(c)
    \/ \E c \in Calls : DjAlone(c) /\ DjLogError(c)

SpecDjangoFaults == DjInit /\ [][DjFaultNext]_vars

(***************************************************************************)
(* What is observed of a call.                                             *)
(***************************************************************************)
\* routing_result is a denial of the quota check, with its reason
IsDenial(routing_result) ==
    /\ "allowed" \in DOMAIN routing_result
    /\ ~routing_result.allowed
    /\ "error" \in DOMAIN routing_result

MonthlyDenial(routing_result) ==
    /\ IsDenial(routing_result)
    /\ SubSeq(routing_result.error, 1, 3) = <<"Monthly", "limit", "exceeded">>
    /\ "upgrade_suggestion" \in DOMAIN routing_result
    /\ routing_result.upgrade_suggestion

DailyDenial(routing_result) ==
    /\ IsDenial(routing_result)
    /\ SubSeq(routing_result.error, 1, 3) = <<"Daily", "limit", "exceeded">>
    /\ "retry_after" \in DOMAIN routing_result
    /\ routing_result.retry_after = "24 hours"

\* call c takes the step that ends its quota check
Checks(c) == req[c].pc = "check" /\ req'[c].pc # "check"

\* call c takes the step of its write transaction on users
Registers(c) == req[c].pc = "update" /\ req'[c].pc # "update"

\* the rows of tasks of that user created on that day
TasksOn(phone, day) ==
    {i \in 1..Len(tasks) : tasks[i].user_phone = phone /\ tasks[i].created_at = day}

(***************************************************************************)
(* C1.  Quota enforcement is linearizable per user: the calls that pass    *)
(* the quota check are calls some sequential order would let pass.  Run    *)
(* one after another, the calls of a user never leave more tasks on one    *)
(* day than the daily limit of the user's tier; so neither may concurrent  *)
(* calls, and with one request left two calls are never both allowed.      *)
(***************************************************************************)
C1_QuotaLinearizable ==
    \A i \in 1..Len(tasks) :
        Cardinality(TasksOn(tasks[i].user_phone, tasks[i].created_at))
            <= tier_limits(users[tasks[i].user_phone].tier).daily

(***************************************************************************)
(* C2.  _check_rate_limits denies with the monthly reason and the upgrade  *)
(* hint exactly when monthly_requests >= the monthly limit of the tier     *)
(* (free 50, premium 500, enterprise 5000): a free user at 50 is denied,   *)
(* one at 49 with fewer than 10 tasks today is allowed.                    *)
(***************************************************************************)
StatedMonthlyLimit(tier) ==
    CASE tier = "free"       -> 50
      [] tier = "premium"    -> 500
      [] tier = "enterprise" -> 5000

StatedDailyLimit(tier) ==
    CASE tier = "free"       -> 10
      [] tier = "premium"    -> 50
      [] tier = "enterprise" -> 200

C2_MonthlyDenial ==
    [][\A c \in Calls :
          (Checks(c) /\ req[c].user_info.tier \in Tiers) =>
            LET ui    == req[c].user_info
                today == Cardinality(TasksOn(req[c].from_number, now))
            IN  /\ MonthlyDenial(req'[c].routing_result)
                      <=> ui.monthly_requests >= StatedMonthlyLimit(ui.tier)
                /\ (ui.tier = "free" /\ ui.monthly_requests = 50) =>
                      MonthlyDenial(req'[c].routing_result)
                /\ (ui.tier = "free" /\ ui.monthly_requests = 49 /\ today < 10) =>
                      req'[c].pc = "create"]_vars

\* a free user whose call was the 50th of the month has been denied
C2_Witness ==
    \E c \in Calls :
        /\ MonthlyDenial(req[c].routing_result)
        /\ users[req[c].from_number].tier = "free"
        /\ users[req[c].from_number].monthly_requests = 50

(***************************************************************************)
(* C3.  _check_rate_limits denies with the daily reason and retry after    *)
(* 24 hours exactly when the monthly check passes and the tasks of the     *)
(* user created today are >= the daily limit of the tier (free 10,         *)
(* premium 50, enterprise 200); whenever the monthly check passes and the  *)
(* daily limit is not reached, the call is allowed.                        *)
(***************************************************************************)
C3_DailyDenial ==
    [][\A c \in Calls :
          (Checks(c) /\ req[c].user_info.tier \in Tiers) =>
            LET ui      == req[c].user_info
                today   == Cardinality(TasksOn(req[c].from_number, now))
                monthly == ui.monthly_requests < StatedMonthlyLimit(ui.tier)
            IN  /\ DailyDenial(req'[c].routing_result)
                      <=> (monthly /\ today >= StatedDailyLimit(ui.tier))
                /\ req'[c].pc = "create"
                      <=> (monthly /\ today < StatedDailyLimit(ui.tier))]_vars

\* a premium user with exactly 50 tasks today has been denied for the day
C3_Witness ==
    \E c \in Calls :
        /\ DailyDenial(req[c].routing_result)
        /\ users[req[c].from_number].tier = "premium"
        /\ Cardinality(TasksOn(req[c].from_number, now)) = 50

(***************************************************************************)
(* C4.  A call the quota check denies persists no Task: the step that      *)
(* denies leaves the tasks table as it was, the result route_task returns  *)
(* carries the reason, and no later step of the denied call changes the    *)
(* tasks table either.                                                     *)
(***************************************************************************)
C4_DeniedPersistsNoTask ==
    [][\A c \in Calls :
          /\ (Checks(c) /\ req'[c].pc # "create") =>
                /\ tasks' = tasks
                /\ req'[c].pc # "done" =>
                      (MonthlyDenial(req'[c].routing_result)
                          \/ DailyDenial(req'[c].routing_result))
          /\ (IsDenial(req[c].routing_result) /\ req'[c] # req[c]) =>
                /\ req[c].task_id = 0
                /\ tasks' = tasks]_vars

\* a call has been denied for the daily limit and its request is in flight
C4_Witness ==
    \E c \in Calls : DailyDenial(req[c].routing_result) /\ req[c].pc # "done"

(***************************************************************************)
(* C5.  A message route denies for quota is not handed to the AI           *)
(* collaborator: cursor_agent.create_task is not called for it.            *)
(***************************************************************************)
C5_DeniedNotSentToAI ==
    \A c \in Calls : IsDenial(req[c].routing_result) => req[c].result = ""

(***************************************************************************)
(* C6.  A Task is finalized at most once: completed_at and                 *)
(* processing_time, once set, are never written again.                     *)
(***************************************************************************)
C6_FinalizedOnce ==
    [][\A i \in 1..Len(tasks) :
          tasks[i].completed_at # NULL =>
              /\ tasks'[i].completed_at = tasks[i].completed_at
              /\ tasks'[i].processing_time = tasks[i].processing_time]_vars

(***************************************************************************)
(* C7.  Every Task persisted by route is finalized by the time the         *)
(* handling of its message ends: when no request is in flight, no task     *)
(* has completed_at unset.                                                 *)
(***************************************************************************)
C7_PersistedIsFinalized ==
    (\A c \in Calls : req[c].pc \in {"idle", "done"}) =>
        \A i \in 1..Len(tasks) : tasks[i].completed_at # NULL

(***************************************************************************)
(* C8.  _update_user_activity resets before it counts: called for a user   *)
(* whose monthly_reset_date has been reached, it leaves monthly_requests   *)
(* at 1 (0, then the current call) and monthly_reset_date in the future.   *)
(***************************************************************************)
C8_ResetBeforeIncrement ==
    [][\A c \in Calls :
          (/\ Registers(c)
           /\ req[c].from_number \in DOMAIN users
           /\ DateLE(users[req[c].from_number].monthly_reset_date, now)) =>
              /\ users'[req[c].from_number].monthly_requests = 1
              /\ ~DateLE(users'[req[c].from_number].monthly_reset_date, now)]_vars

(***************************************************************************)
(* C9.  The monthly counter is reset exactly once per period: a rate-limit *)
(* check of a user whose reset date is <= now leaves monthly_requests at 0 *)
(* and the reset date at a strictly later instant of the next calendar     *)
(* month (January of the next year in December); a check made while the    *)
(* reset date of the user is still ahead leaves the user's row alone.      *)
(***************************************************************************)
DjChecks(c) == dj_req[c].pc = "check" /\ dj_req'[c].pc # "check"

InNextMonth(t, t0) ==
    IF t0[2] = 12 THEN t[1] = t0[1] + 1 /\ t[2] = 1
    ELSE t[1] = t0[1] /\ t[2] = t0[2] + 1

C9_ResetOncePerPeriod ==
    [][\A c \in Calls :
          DjChecks(c) =>
            LET phone == DjPhone(dj_req[c].from_number)
            IN  /\ DjLE(dj_users[phone].rate_limit_reset, dj_now) =>
                      /\ dj_users'[phone].monthly_requests = 0
                      /\ ~DjLE(dj_users'[phone].rate_limit_reset, dj_now)
                      /\ InNextMonth(dj_users'[phone].rate_limit_reset, dj_now)
                /\ ~DjLE(dj_users[phone].rate_limit_reset, dj_now) =>
                      dj_users'[phone] = dj_users[phone]]_vars

C11_NeverFailsOpen ==
    [][\A c \in Calls :
          (/\ DjChecks(c)
           /\ DjLE(dj_req[c].user.rate_limit_reset, dj_now)
           /\ ~dj_db_up) => dj_req'[c].pc # "task"]_vars

(***************************************************************************)
(* C12.  When the INSERT of the task fails during route_task, the call     *)
(* ends with a routing error and the handler does not call                 *)
(* cursor_agent.create_task for that message.                              *)
(***************************************************************************)
C12_PersistFailureStopsRequest ==
    [][\A c \in Calls :
          (/\ req[c].pc = "log"
           /\ req[c].e.lineno = 160
           /\ req'[c].pc # "log") =>
              /\ req'[c].result = ""
              /\ req'[c].pc # "done" =>
                    /\ "success" \in DOMAIN req'[c].routing_result
                    /\ ~req'[c].routing_result.success]_vars

(***************************************************************************)
(* C13.  route_task never lets an exception out: whatever step the store   *)
(* fails at (user update, quota read, task insert, error logging), the     *)
(* caller gets a result, not an exception.                                 *)
(***************************************************************************)
C13_RouteNeverRaises ==
    \A c \in Calls : "exception" \notin DOMAIN req[c].routing_result


(***************************************************************************)
(* The analysis of a request text, its priority and its routing decision,  *)
(* as route_task computes them one after the other.                        *)
(***************************************************************************)
\* the words the short request texts are made of: a word without any
\* keyword, one keyword of each category, a word that holds the keyword of
\* another category ("data" in "database"), an upper-case technical term,
\* a step word and the two code markers
Vocabulary ==
    {<<"h", "e", "l", "l", "o">>,
     <<"f", "i", "x">>,
     <<"c", "o", "d", "e">>,
     <<"d", "e", "s", "i", "g", "n">>,
     <<"g", "u", "i", "d", "e">>,
     <<"r", "e", "v", "i", "e", "w">>,
     <<"d", "a", "t", "a", "b", "a", "s", "e">>,
     <<"A", "P", "I">>,
     <<"t", "h", "e", "n">>,
     <<"d", "e", "f">>,
     <<Backtick, Backtick, Backtick>>}

RECURSIVE JoinWords(_)
JoinWords(words) ==
    IF words = <<>> THEN <<>>
    ELSE IF Len(words) = 1 THEN words[1]
    ELSE words[1] \o <<" ">> \o JoinWords(Tail(words))

\* n times the word, with one blank between two of them
Repeat(word, n) ==
    [i \in 1..(n * (Len(word) + 1) - 1) |->
        IF i % (Len(word) + 1) = 0 THEN " " ELSE word[i % (Len(word) + 1)]]

ShortTexts == {JoinWords(words) : words \in UNION {[1..n -> Vocabulary] : n \in 0..MaxWords}}

\* texts whose counts lie around the limit of each term of the complexity
LongTexts ==
    {Repeat(<<"a">>, n) : n \in (100 - Slack)..(100 + Slack)}
      \cup {Repeat(<<"A", "P", "I">>, n) : n \in (5 - Slack)..(5 + Slack)}
      \cup {Repeat(CodeFence, n) : n \in (3 - Slack)..(3 + Slack)}
      \cup {JoinWords(SubSeq(StepWords, 1, n)) : n \in (3 - Slack)..(3 + Slack)}
      \cup {JoinWords(<<Repeat(<<"c", "l", "a", "s", "s", " ", "a", "p", "i">>, 3), Repeat(<<"a", "p", "i">>, 2), JoinWords(SubSeq(StepWords, 1, 3))>>)}

RequestTexts == ShortTexts \cup LongTexts

\* complexity scores around the two thresholds of the decisions, 0.6 and 0.8
ComplexityScores ==
    {0, ScoreUnit \div 2, (7 * ScoreUnit) \div 10, (9 * ScoreUnit) \div 10, ScoreUnit}
      \cup {(6 * ScoreUnit) \div 10 + d : d \in (0 - Slack)..Slack}
      \cup {(8 * ScoreUnit) \div 10 + d : d \in (0 - Slack)..Slack}

\* the fields of an analysis that the priority and the decision read
Analyses ==
    [category : {CategoryOrder[k] : k \in 1..Len(CategoryOrder)}, complexity_score : ComplexityScores]

RouterIdle ==
    /\ now = StartDate
    /\ users = <<>>
    /\ tasks = <<>>
    /\ system_metrics = EmptyBag
    /\ error_logs = EmptyBag
    /\ cursor_agent = TRUE
    /\ twilio_client = TRUE
    /\ req = [c \in Calls |-> InitReq]
    /\ db_up = TRUE

AnalysisInit ==
    /\ RouterIdle
    /\ DjangoIdle
    /\ NotifierIdle
    /\ DispatchIdle
    /\ BackgroundIdle
    /\ \E tier \in Tiers :
          \/ \E request_text \in RequestTexts :
                an = [pc |-> "text", request_text |-> request_text, user_info |-> [tier |-> tier],
                      analysis |-> None, priority |-> 0, routing_decision |-> None]
          \/ \E analysis \in Analyses :
                an = [pc |-> "analysed", request_text |-> None, user_info |-> [tier |-> tier],
                      analysis |-> analysis, priority |-> 0, routing_decision |-> None]

\* analysis = self._analyze_task(request_text)
AnalyzeTask ==
    /\ an.pc = "text"
    /\ an' = [an EXCEPT !.pc = "analysed", !.analysis = AnalyzeTaskResult(an.request_text)]
    /\ UNCHANGED <<now, store, clients, req, db_up, django, rendered, dispatch, background>>

\* priority = self._calculate_priority(user_info, analysis)
CalculatePriority ==
    /\ an.pc = "analysed"
    /\ an' = [an EXCEPT !.pc = "prioritised",
                        !.priority = CalculatePriorityResult(an.user_info, an.analysis)]
    /\ UNCHANGED <<now, store, clients, req, db_up, django, rendered, dispatch, background>>

\* routing_decision = self._make_routing_decision(analysis, priority, user_info)
MakeRoutingDecision ==
    /\ an.pc = "prioritised"
    /\ an' = [an EXCEPT !.pc = "routed",
                        !.routing_decision =
                            MakeRoutingDecisionResult(an.analysis, an.priority, an.user_info)]
    /\ UNCHANGED <<now, store, clients, req, db_up, django, rendered, dispatch, background>>

AnalysisNext == AnalyzeTask \/ CalculatePriority \/ MakeRoutingDecision

SpecAnalysis == AnalysisInit /\ [][AnalysisNext]_vars

(***************************************************************************)
(* C15: the priority of a task is the base priority of the user's tier     *)
(* (free low, premium medium, enterprise high), raised by exactly one      *)
(* level when the complexity score is above 0.8, and never above urgent.   *)
(***************************************************************************)
StatedBasePriority ==
    [free |-> TaskPriority.LOW, premium |-> TaskPriority.MEDIUM, enterprise |-> TaskPriority.HIGH]

C15_PriorityByTierAndComplexity ==
    (an # <<>> /\ an.pc \in {"prioritised", "routed"} /\ an.user_info.tier \in DOMAIN StatedBasePriority) =>
        LET base == StatedBasePriority[an.user_info.tier]
        IN  /\ an.priority <= TaskPriority.URGENT
            /\ an.priority = IF 10 * an.analysis.complexity_score > 8 * ScoreUnit
                             THEN base + 1 ELSE base

\* an enterprise user's task of complexity 0.9 is urgent
C15_Witness ==
    /\ an # <<>>
    /\ an.pc = "prioritised"
    /\ an.user_info.tier = "enterprise"
    /\ 10 * an.analysis.complexity_score = 9 * ScoreUnit
    /\ an.priority = TaskPriority.URGENT

(***************************************************************************)
(* C16: the routing decision follows these rules in order: a coding task   *)
(* of complexity above 0.6 gets the advanced model, unless the tier is     *)
(* free, which gets the standard one, with 2000 tokens above 0.8 and 1500  *)
(* otherwise; else a debug task gets the advanced model and 1500 tokens;   *)
(* else a design task the advanced model and 1200; else the standard model *)
(* and 1000.  The temperature is 0.3 for coding and debug and 0.7          *)
(* otherwise; code execution is enabled only for coding and enterprise.    *)
(***************************************************************************)
AdvancedModel == "gpt-4"

StandardModel == "gpt-3.5-turbo"

C16_RoutingDecisionRules ==
    (an # <<>> /\ an.pc = "routed") =>
        LET category   == an.analysis.category
            complexity == an.analysis.complexity_score
            tier       == an.user_info.tier
            decision   == an.routing_decision
        IN  /\ (category = "coding" /\ 10 * complexity > 6 * ScoreUnit) =>
                  /\ decision.model = IF tier = "free" THEN StandardModel ELSE AdvancedModel
                  /\ decision.max_tokens = IF 10 * complexity > 8 * ScoreUnit THEN 2000 ELSE 1500
            /\ (~(category = "coding" /\ 10 * complexity > 6 * ScoreUnit) /\ category = "debug") =>
                  decision.model = AdvancedModel /\ decision.max_tokens = 1500
            /\ (~(category = "coding" /\ 10 * complexity > 6 * ScoreUnit) /\ category = "design") =>
                  decision.model = AdvancedModel /\ decision.max_tokens = 1200
            /\ (/\ ~(category = "coding" /\ 10 * complexity > 6 * ScoreUnit)
                /\ category \notin {"debug", "design"}) =>
                  decision.model = StandardModel /\ decision.max_tokens = 1000
            /\ decision.temperature = (IF category \in {"coding", "debug"} THEN 3 ELSE 7)
            /\ decision.enable_code_execution <=> (category = "coding" /\ tier = "enterprise")

\* a free user's coding task of complexity above 0.8: standard model, 2000 tokens
C16_Witness ==
    /\ an # <<>>
    /\ an.pc = "routed"
    /\ an.analysis.category = "coding"
    /\ an.user_info.tier = "free"
    /\ 10 * an.analysis.complexity_score > 8 * ScoreUnit
    /\ an.routing_decision.model = StandardModel
    /\ an.routing_decision.max_tokens = 2000

(***************************************************************************)
(* C17: a text in which no keyword of the five keyword lists occurs, the   *)
(* empty text included, is given the category "general".                   *)
(***************************************************************************)
NoKeywordMatches(category_scores) ==
    \A category \in DOMAIN category_scores : category_scores[category] = 0

C17_NoMatchIsGeneral ==
    (an # <<>> /\ an.pc # "text" /\ an.request_text # None
       /\ NoKeywordMatches(an.analysis.category_scores)) =>
          an.analysis.category = "general"

(***************************************************************************)
(* C18: when some category score is positive, the category is the one      *)
(* with the highest score, and among those with the highest score the      *)
(* first in the order coding, debug, design, documentation, analysis.      *)
(***************************************************************************)
StatedOrder == <<"coding", "debug", "design", "documentation", "analysis">>

C18_HighestScoreFirstInOrder ==
    (an # <<>> /\ an.pc # "text" /\ an.request_text # None
       /\ ~NoKeywordMatches(an.analysis.category_scores)) =>
          LET scores == an.analysis.category_scores
          IN  \E k \in 1..Len(StatedOrder) :
                 /\ an.analysis.category = StatedOrder[k]
                 /\ \A j \in 1..Len(StatedOrder) : scores[StatedOrder[j]] <= scores[StatedOrder[k]]
                 /\ \A j \in 1..(k - 1) : scores[StatedOrder[j]] < scores[StatedOrder[k]]

\* debug and design have the highest score, coding has none: debug it is
C18_Witness ==
    /\ an # <<>>
    /\ an.pc = "analysed"
    /\ an.request_text # None
    /\ an.analysis.category_scores.coding = 0
    /\ an.analysis.category_scores.debug = 1
    /\ an.analysis.category_scores.design = 1
    /\ an.analysis.category = "debug"

(***************************************************************************)
(* C19: the complexity score lies between 0 and 1: each of the four terms  *)
(* (words / 100, technical terms / 5, code markers / 3, step words / 3) is *)
(* at most 1 before it is weighted by 0.1, 0.3, 0.4 and 0.2, and the sum   *)
(* is at most 1, whatever the counts are.                                  *)
(***************************************************************************)
\* count / limit, at most 1, times the weight in thousandths, in units of 1/3000
StatedTerm(count, limit, thousandths) ==
    IF count >= limit THEN 3 * thousandths ELSE (3 * thousandths * count) \div limit

C19_ComplexityClamped ==
    (an # <<>> /\ an.pc # "text" /\ an.request_text # None) =>
        LET counts == ComplexityCounts(an.request_text)
            sum    == StatedTerm(counts.word_count, 100, 100)
                        + StatedTerm(counts.technical_terms, 5, 300)
                        + StatedTerm(counts.code_indicators, 3, 400)
                        + StatedTerm(counts.step_indicators, 3, 200)
            score  == an.analysis.complexity_score
        IN  /\ 0 <= score
            /\ score <= ScoreUnit
            /\ score = IF sum > ScoreUnit THEN ScoreUnit ELSE sum

\* a text of more than 100 words without any other mark: the score is 0.1
C19_Witness ==
    /\ an # <<>>
    /\ an.pc = "analysed"
    /\ an.request_text # None
    /\ an.analysis.word_count > 100
    /\ 10 * an.analysis.complexity_score = ScoreUnit

(***************************************************************************)
(* NotificationSystem._render_template: str.format on the template, with   *)
(* the variables as its keyword arguments.                                 *)
(* Templates and values are sequences of characters.                       *)
(***************************************************************************)
\* the characters of the templates: the two braces and two letters
TemplateChars == {"{", "}", "n", "H"}

Templates == UNION {[1..n -> TemplateChars] : n \in 0..MaxTemplateLen}

\* the variables a caller passes: none, one, or both names
VariableSets ==
    {<<>>,
     [name \in {<<"n">>} |-> <<"v">>],
     [name \in {<<"n">>, <<"H">>} |-> IF name = <<"n">> THEN <<"v">> ELSE <<"w">>]}

\* what str.format has produced so far, or the exception it raises
Formatted(text) == [text |-> text]

Raises(exception) == [exception |-> exception]

After(text, rest) ==
    IF "exception" \in DOMAIN rest THEN rest ELSE Formatted(text \o rest.text)

\* str.format from position i on: "{{" and "}}" are the escaped braces, a
\* single "}" or a "{" without its "}" is a ValueError, "{}" asks for a
\* positional argument, of which there is none (IndexError), and "{name}" is
\* the value of the keyword argument "name", or a KeyError
RECURSIVE FormatFrom(_, _, _)
FormatFrom(template, i, variables) ==
    IF i > Len(template) THEN Formatted(<<>>)
    ELSE IF template[i] = "{"
    THEN IF i = Len(template) THEN Raises("ValueError")
         ELSE IF template[i + 1] = "{"
         THEN After(<<"{">>, FormatFrom(template, i + 2, variables))
         ELSE LET closing == {j \in (i + 1)..Len(template) : template[j] = "}"}
                  opening == {j \in (i + 1)..Len(template) : template[j] = "{"}
              IN  IF closing = {} THEN Raises("ValueError")
                  ELSE LET j    == CHOOSE c \in closing : \A d \in closing : c <= d
                           name == SubSeq(template, i + 1, j - 1)
                       IN  IF \E k \in opening : k < j THEN Raises("ValueError")
                           ELSE IF name = <<>> THEN Raises("IndexError")
                           ELSE IF name \notin DOMAIN variables THEN Raises("KeyError")
                           ELSE After(variables[name], FormatFrom(template, j + 1, variables))
    ELSE IF template[i] = "}"
    THEN IF i < Len(template) /\ template[i + 1] = "}"
         THEN After(<<"}">>, FormatFrom(template, i + 2, variables))
         ELSE Raises("ValueError")
    ELSE After(<<template[i]>>, FormatFrom(template, i + 1, variables))

Format(template, variables) == FormatFrom(template, 1, variables)

\* try: return the formatted template;  except KeyError: return template
RenderTemplateResult(template, variables) ==
    LET formatted == Format(template, variables)
    IN  IF "exception" \in DOMAIN formatted /\ formatted.exception = "KeyError"
        THEN Formatted(template)
        ELSE formatted

RenderInit ==
    /\ RouterIdle
    /\ DjangoIdle
    /\ AnalysisIdle
    /\ DispatchIdle
    /\ BackgroundIdle
    /\ \E template \in Templates, variables \in VariableSets :
          rendered = [pc |-> "call", template |-> template, variables |-> variables,
                      result |-> None]

RenderTemplate ==
    /\ rendered.pc = "call"
    /\ rendered' = [rendered EXCEPT !.pc = "done",
                                    !.result = RenderTemplateResult(rendered.template,
                                                                    rendered.variables)]
    /\ UNCHANGED <<now, store, clients, req, db_up, django, an, dispatch, background>>

RenderNext == RenderTemplate

SpecRender == RenderInit /\ [][RenderNext]_vars

(***************************************************************************)
(* C20: rendering a template never fails and is permissive: a placeholder  *)
(* without a matching variable stays in the output exactly as written,     *)
(* every placeholder with a matching variable is still substituted, and    *)
(* the template "H{{n}}" rendered without variables is "H{{n}}".           *)
(***************************************************************************)
\* a placeholder starts at i and ends at j: "{", a name, "}"
PlaceholderAt(template, i, j) ==
    /\ template[i] = "{"
    /\ j > i + 1
    /\ j <= Len(template)
    /\ template[j] = "}"
    /\ \A k \in (i + 1)..(j - 1) : template[k] \notin {"{", "}"}

RECURSIVE StatedRenderFrom(_, _, _)
StatedRenderFrom(template, i, variables) ==
    IF i > Len(template) THEN <<>>
    ELSE LET ends == {j \in 1..Len(template) :
                        /\ PlaceholderAt(template, i, j)
                        /\ SubSeq(template, i + 1, j - 1) \in DOMAIN variables}
         IN  IF ends = {}
             THEN <<template[i]>> \o StatedRenderFrom(template, i + 1, variables)
             ELSE LET j == CHOOSE e \in ends : TRUE
                  IN  variables[SubSeq(template, i + 1, j - 1)]
                         \o StatedRenderFrom(template, j + 1, variables)

C20_RenderNeverFailsAndPermissive ==
    (rendered # <<>> /\ rendered.pc = "done") =>
        /\ "text" \in DOMAIN rendered.result
        /\ rendered.result.text = StatedRenderFrom(rendered.template, 1, rendered.variables)

(***************************************************************************)
(* C14: every route call that passes the quota check creates a new task    *)
(* whose content hash differs from the hash of every task already stored,  *)
(* also for the identical text of the same user and for two calls with the *)
(* same creation instant; the insert is never rejected as a duplicate.     *)
(***************************************************************************)
C14_EveryPassedCallCreatesTask ==
    [][\A c \in Calls :
          (req[c].pc = "create" /\ req'[c].pc # "create") =>
              /\ req'[c].pc # "log"
              /\ Len(tasks') = Len(tasks) + 1
              /\ \A i \in 1..Len(tasks) :
                    tasks'[Len(tasks')].task_hash # tasks[i].task_hash]_vars

\* ---------------------------------------------------------------------------
\* NotificationSystem (src/notification_system.py): quiet hours
\* ---------------------------------------------------------------------------

\* the hours datetime.now().hour can give
Hours == 0 .. 23

\* a nullable INTEGER column or a missing dict key: NULL, or <<h>> for hour h
NullableHours == {NULL} \cup {<<h>> : h \in Hours}

\* _is_quiet_hours(user_prefs) when datetime.now().hour is current_hour
IsQuietHours(user_prefs, current_hour) ==
    LET start == user_prefs.quiet_hours_start
        end   == user_prefs.quiet_hours_end
    IN  IF start = NULL \/ end = NULL
        THEN FALSE
        ELSE IF start[1] <= end[1]
             THEN start[1] <= current_hour /\ current_hour <= end[1]
             ELSE current_hour >= start[1] \/ current_hour <= end[1]

QuietInit ==
    /\ RouterIdle
    /\ DjangoIdle
    /\ AnalysisIdle
    /\ NotifierIdle
    /\ BackgroundIdle
    /\ user_preferences = <<>>
    /\ notification_templates = {}
    /\ notification_history = <<>>
    /\ config = <<>>
    /\ send = <<>>
    /\ delivered = <<>>
    /\ alert_rules = <<>>
    /\ alert_clock = 0
    /\ sweep = <<>>
    /\ clock_hour \in Hours
    /\ \E start \in NullableHours, end \in NullableHours :
          quiet = [pc |-> "call",
                   user_prefs |-> [quiet_hours_start |-> start,
                                   quiet_hours_end |-> end],
                   result |-> FALSE]

\* one call of _is_quiet_hours
IsQuietHoursCall ==
    /\ quiet.pc = "call"
    /\ quiet' = [quiet EXCEPT !.pc = "done",
                              !.result = IsQuietHours(quiet.user_prefs, clock_hour)]
    /\ UNCHANGED <<now, store, clients, req, db_up, django, an, rendered,
                   background, user_preferences, notification_templates,
                   notification_history, config, clock_hour, send, delivered,
                   alert_rules, alert_clock, sweep>>

QuietNext == IsQuietHoursCall

SpecQuiet == QuietInit /\ [][QuietNext]_vars

\* the stated window: the end hour is outside it
StatedQuietHours(start, end, nowHour) ==
    IF start = NULL \/ end = NULL
    THEN FALSE
    ELSE IF start[1] <= end[1]
         THEN start[1] <= nowHour /\ nowHour < end[1]
         ELSE nowHour >= start[1] \/ nowHour < end[1]

\* C21: for all start, end and nowHour in 0..23, _is_quiet_hours is false when
\* either bound is unset; when start <= end it is true exactly when
\* start <= nowHour < end; when start > end it is true exactly when
\* nowHour >= start or nowHour < end; so the end hour itself is never quiet.
C21_QuietHoursWindow ==
    (quiet # <<>> /\ quiet.pc = "done") =>
        quiet.result = StatedQuietHours(quiet.user_prefs.quiet_hours_start,
                                        quiet.user_prefs.quiet_hours_end,
                                        clock_hour)

\* ---------------------------------------------------------------------------
\* NotificationSystem.send_notification and its channel adapters
\* ---------------------------------------------------------------------------

\* what the notifier never touches
outside_dispatch ==
    <<now, store, clients, req, db_up, django, an, rendered, background>>

\* dict.get(key, default)
Get(dict, key, default) == IF key \in DOMAIN dict THEN dict[key] ELSE default

\* the one recipient of the dispatches
Recipient == "+15551230001"

\* the address and the URL a row of user_preferences can hold; a nullable
\* TEXT column is NULL or <<text>>
NullableEmails == {NULL, <<"user@example.com">>}

NullableUrls == {NULL, <<"https://hooks.example.com/user">>}

\* column preferred_channels, already split at the commas
PreferredChannelLists == {<<"email">>, <<"sms", "email">>}

\* columns quiet_hours_start and quiet_hours_end: unset, or 22 to 6
QuietWindows == {<<NULL, NULL>>, <<<<22>>, <<6>>>>}

\* the hours at which the dispatches happen: inside and outside 22 to 6
DispatchHours == {12, 23}

\* the rows table user_preferences can hold for the recipient; the rows are
\* written by the operators of the service, the notifier only reads them
PreferenceRows ==
    {[user_phone |-> Recipient, email |-> email, sms_enabled |-> sms_enabled,
      email_enabled |-> email_enabled, webhook_url |-> webhook_url,
      slack_webhook |-> NULL, preferred_channels |-> preferred_channels,
      quiet_hours_start |-> window[1], quiet_hours_end |-> window[2],
      timezone |-> "UTC"] :
        email \in NullableEmails, sms_enabled \in BOOLEAN,
        email_enabled \in BOOLEAN, webhook_url \in NullableUrls,
        preferred_channels \in PreferredChannelLists, window \in QuietWindows}

\* the dict of _get_user_preferences: the row, or the defaults of a new user
GetUserPreferences(phone_number) ==
    IF phone_number \in DOMAIN user_preferences
    THEN LET row == user_preferences[phone_number]
         IN  [phone_number |-> row.user_phone,
              email |-> row.email,
              sms_enabled |-> row.sms_enabled,
              email_enabled |-> row.email_enabled,
              webhook_url |-> row.webhook_url,
              slack_webhook |-> row.slack_webhook,
              preferred_channels |-> IF row.preferred_channels # NULL
                                     THEN row.preferred_channels ELSE <<"sms">>,
              quiet_hours_start |-> row.quiet_hours_start,
              quiet_hours_end |-> row.quiet_hours_end,
              timezone |-> row.timezone]
    ELSE [phone_number |-> phone_number,
          sms_enabled |-> TRUE,
          email_enabled |-> FALSE,
          preferred_channels |-> <<"sms">>,
          timezone |-> "UTC"]

\* the dict as _is_quiet_hours reads it, with .get for the two hours
QuietHoursOf(user_prefs) ==
    [quiet_hours_start |-> Get(user_prefs, "quiet_hours_start", NULL),
     quiet_hours_end |-> Get(user_prefs, "quiet_hours_end", NULL)]

\* str.startswith
StartsWith(text, prefix) ==
    /\ Len(text) >= Len(prefix)
    /\ SubSeq(text, 1, Len(prefix)) = prefix

\* the names of the templates, as sequences of characters
task_completion == <<"t","a","s","k","_","c","o","m","p","l","e","t","i","o","n">>

system_alert == <<"s","y","s","t","e","m","_","a","l","e","r","t">>

alert_digest == <<"a","l","e","r","t","_","d","i","g","e","s","t">>

\* the template names the dispatches ask for; no template is called alert_digest
TemplateNames == {task_completion, system_alert, alert_digest}

\* the rows _create_default_templates inserts, one of each type, their
\* texts shortened to one literal and one placeholder; name is UNIQUE
DefaultTemplates ==
    {[name |-> task_completion, type |-> "sms",
      subject_template |-> <<"H">>,
      body_template |-> <<"H", "{", "n", "}">>],
     [name |-> system_alert, type |-> "email",
      subject_template |-> <<"H", "{", "n", "}">>,
      body_template |-> <<"{", "n", "}", "H">>]}

\* the variables the callers pass: every variable the template names
DispatchVariables == [name \in {<<"n">>} |-> <<"v">>]

\* _get_template(name, notification_type): the row or NULL
GetTemplate(name, notification_type) ==
    LET rows == {row \in notification_templates :
                    row.name = name /\ row.type = notification_type}
    IN  IF rows = {} THEN NULL ELSE CHOOSE row \in rows : TRUE

\* _determine_channels(user_prefs, template_name)
DetermineChannels(user_prefs, template_name) ==
    (IF Get(user_prefs, "sms_enabled", TRUE) THEN <<"sms">> ELSE <<>>)
    \o (IF Get(user_prefs, "email_enabled", FALSE)
           /\ Get(user_prefs, "email", NULL) # NULL
        THEN <<"email">> ELSE <<>>)
    \o (IF Get(user_prefs, "webhook_url", NULL) # NULL
        THEN <<"webhook">> ELSE <<>>)
    \o (IF StartsWith(template_name, <<"s","y","s","t","e","m","_">>)
           \/ StartsWith(template_name, <<"a","l","e","r","t","_">>)
        THEN (IF config.slack.webhook_url # NULL THEN <<"slack">> ELSE <<>>)
             \o (IF config.discord.webhook_url # NULL THEN <<"discord">> ELSE <<>>)
        ELSE <<>>)

\* a filter that takes email out as well
WithoutSmsAndPush_AlsoEmail(channels) ==
    SelectSeq(channels, LAMBDA ch : ch \notin {"sms", "push", "email"})

\* [ch for ch in channels if ch not in ['sms', 'push']]
WithoutSmsAndPush(channels) ==
    SelectSeq(channels, LAMBDA ch : ch \notin {"sms", "push"})

\* lines 202-210: the channels the loop of send_notification goes through
ChannelsToUse(user_prefs, template_name, channels) ==
    LET chosen == IF channels = NULL \/ channels = <<>>
                  THEN DetermineChannels(user_prefs, template_name)
                  ELSE channels
    IN  IF IsQuietHours(QuietHoursOf(user_prefs), clock_hour)
        THEN WithoutSmsAndPush(chosen)
        ELSE chosen

\* the result dicts of the adapters
Success == [success |-> TRUE]

Failure(error) == [success |-> FALSE, error |-> error]

\* what an adapter hands to its service, or the result it returns without
\* a call of the service: [result |-> ...] or [to |-> ..., message |-> ...]
NoCall(result) == [result |-> result]

Call(to, message) == [to |-> to, message |-> message]

\* one line "* k: v" per variable, each after a line break
RECURSIVE Bullets(_, _)
Bullets(variables, names) ==
    IF names = {}
    THEN <<>>
    ELSE LET k == CHOOSE name \in names : TRUE
         IN  <<"\n", "*", " ">> \o k \o <<":", " ">> \o variables[k]
             \o Bullets(variables, names \ {k})

\* f"*{template_name}*" (Slack) or f"**{template_name}**" (Discord)
\* followed by one line per variable
FallbackText(platform, template_name, variables) ==
    LET mark == IF platform = "slack" THEN <<"*">> ELSE <<"*", "*">>
    IN  mark \o template_name \o mark \o Bullets(variables, DOMAIN variables)

\* the dynamic payload of _send_webhook
DynamicPayload(template_name, variables) ==
    [event |-> template_name, data |-> variables]

\* _render_template raised: the adapter's except turns it into a failure
RenderFailed(text) == "exception" \in DOMAIN text

\* _send_sms up to messages.create
SendSms(recipient, template_name, variables) ==
    LET template == GetTemplate(template_name, "sms")
    IN  IF template = NULL
        THEN NoCall(Failure("Template not found"))
        ELSE LET message == RenderTemplateResult(template.body_template, variables)
             IN  IF RenderFailed(message)
                 THEN NoCall(Failure(message.exception))
                 ELSE Call(recipient, [body |-> message.text])

\* _send_email up to sendmail
SendEmail(email, template_name, variables) ==
    IF email = NULL
    THEN NoCall(Failure("No email address provided"))
    ELSE LET template == GetTemplate(template_name, "email")
         IN  IF template = NULL
             THEN NoCall(Failure("Template not found"))
             ELSE LET subject == RenderTemplateResult(template.subject_template,
                                                      variables)
                      body == RenderTemplateResult(template.body_template,
                                                   variables)
                  IN  IF RenderFailed(subject)
                      THEN NoCall(Failure(subject.exception))
                      ELSE IF RenderFailed(body)
                      THEN NoCall(Failure(body.exception))
                      ELSE Call(email[1], [subject |-> subject.text,
                                           body |-> body.text])

\* _send_webhook up to session.post
SendWebhook(webhook_url, template_name, variables) ==
    IF webhook_url = NULL
    THEN NoCall(Failure("No webhook URL provided"))
    ELSE LET template == GetTemplate(template_name, "webhook")
         IN  IF template = NULL
             THEN Call(webhook_url[1], DynamicPayload(template_name, variables))
             ELSE LET payload == RenderTemplateResult(template.body_template,
                                                      variables)
                  IN  IF RenderFailed(payload)
                      THEN NoCall(Failure(payload.exception))
                      ELSE Call(webhook_url[1], [json |-> payload.text])

\* _send_slack and _send_discord up to session.post
SendChat(platform, template_name, variables) ==
    LET webhook_url == config[platform].webhook_url
    IN  IF webhook_url = NULL
        THEN NoCall(Failure(IF platform = "slack"
                            THEN "No Slack webhook URL configured"
                            ELSE "No Discord webhook URL configured"))
        ELSE LET template == GetTemplate(template_name, platform)
             IN  IF template = NULL
                 THEN Call(webhook_url[1],
                           [text |-> FallbackText(platform, template_name,
                                                  variables)])
                 ELSE LET message == RenderTemplateResult(template.body_template,
                                                          variables)
                      IN  IF RenderFailed(message)
                          THEN NoCall(Failure(message.exception))
                          ELSE Call(webhook_url[1], [text |-> message.text])

\* the branch of the loop for one channel, lines 216-227
Adapter(channel, recipient, user_prefs, template_name, variables) ==
    CASE channel = "sms" -> SendSms(recipient, template_name, variables)
      [] channel = "email" ->
            SendEmail(Get(user_prefs, "email", NULL), template_name, variables)
      [] channel = "webhook" ->
            SendWebhook(Get(user_prefs, "webhook_url", NULL), template_name,
                        variables)
      [] channel \in {"slack", "discord"} ->
            SendChat(channel, template_name, variables)
      [] OTHER -> NoCall(Failure("Unknown channel"))

\* a log that records every attempt as sent
LogNotification_AlwaysSent(recipient, channel, template_name, variables, result) ==
    [recipient |-> recipient, type |-> channel, subject |-> template_name,
     body |-> [json |-> variables],
     status |-> "sent",
     delivery_status |-> "delivered",
     error_message |-> Get(result, "error", "")]

\* the row _log_notification inserts
LogNotification(recipient, channel, template_name, variables, result) ==
    [recipient |-> recipient, type |-> channel, subject |-> template_name,
     body |-> [json |-> variables],
     status |-> IF result.success THEN "sent" ELSE "failed",
     delivery_status |-> IF result.success THEN "delivered" ELSE "failed",
     error_message |-> Get(result, "error", "")]

\* the channel lists callers force: none, and three lists
ForcedChannels ==
    {NULL, <<"sms", "email">>, <<"slack", "discord", "email">>,
     <<"push", "webhook", "sms">>}

\* a row of notification_history left by an earlier dispatch
OldNotification ==
    LogNotification(Recipient, "sms", task_completion, DispatchVariables, Success)

\* config['slack'] and config['discord']: SLACK_WEBHOOK_URL and
\* DISCORD_WEBHOOK_URL of the environment, set or not
Configs ==
    {[slack |-> [webhook_url |-> slack], discord |-> [webhook_url |-> discord]] :
        slack \in {NULL, <<"https://hooks.slack.example/T">>},
        discord \in {NULL, <<"https://discord.example/api/webhooks/1">>}}

\* the argument channels is forced, the local channels is what the loop uses
SendInit ==
    /\ RouterIdle
    /\ DjangoIdle
    /\ AnalysisIdle
    /\ NotifierIdle
    /\ BackgroundIdle
    /\ quiet = <<>>
    /\ alert_rules = <<>>
    /\ alert_clock = 0
    /\ sweep = <<>>
    /\ \/ user_preferences = <<>>
       \/ \E row \in PreferenceRows :
             user_preferences = [phone \in {Recipient} |-> row]
    /\ notification_templates = DefaultTemplates
    /\ notification_history = <<OldNotification>>
    /\ config \in Configs
    /\ clock_hour \in DispatchHours
    /\ delivered = <<>>
    /\ \E template_name \in TemplateNames, channels \in ForcedChannels :
          send = [pc |-> "call", recipient |-> Recipient,
                  template_name |-> template_name,
                  variables |-> DispatchVariables,
                  forced |-> channels, channels |-> <<>>,
                  user_prefs |-> <<>>, next |-> 1, results |-> <<>>,
                  attempted |-> <<>>, returned |-> NULL]

\* lines 202-212: the preferences, the channels and the quiet hours
ResolveChannels ==
    /\ send.pc = "call"
    /\ LET user_prefs == GetUserPreferences(send.recipient)
       IN  send' = [send EXCEPT
                      !.pc = "loop",
                      !.user_prefs = user_prefs,
                      !.channels = ChannelsToUse(user_prefs, send.template_name,
                                                 send.forced),
                      !.results = <<>>]
    /\ UNCHANGED <<outside_dispatch, quiet, user_preferences,
                   notification_templates, notification_history, config,
                   clock_hour, delivered, alert_rules, alert_clock, sweep>>

\* a loop that gives up at the first failed channel
AfterAttempt_AbortOnFailure(next, channels, result) ==
    IF result.success THEN next + 1 ELSE Len(channels) + 1

\* the for loop goes on to the next channel whatever the result was: the
\* adapters catch their exceptions and line 234 catches the rest
AfterAttempt(next, channels, result) == next + 1

\* lines 214-236: one turn of the loop; the service accepts the call or
\* refuses it (an exception or an HTTP error), which the adapter reports
AttemptChannel ==
    /\ send.pc = "loop"
    /\ send.next <= Len(send.channels)
    /\ LET channel == send.channels[send.next]
           step == Adapter(channel, send.recipient, send.user_prefs,
                           send.template_name, send.variables)
       IN  \E accepted \in BOOLEAN :
              LET result == IF "result" \in DOMAIN step THEN step.result
                            ELSE IF accepted THEN Success
                            ELSE Failure("refused")
              IN  /\ ("result" \in DOMAIN step) => accepted
                  /\ delivered' = IF result.success
                                  THEN Append(delivered,
                                              [channel |-> channel, to |-> step.to,
                                               message |-> step.message])
                                  ELSE delivered
                  /\ send' = [send EXCEPT
                                !.next = AfterAttempt(@, send.channels, result),
                                !.attempted = Append(@, channel),
                                !.results = [ch \in DOMAIN @ \cup {channel} |->
                                               IF ch = channel THEN result
                                               ELSE @[ch]]]
                  /\ notification_history' =
                        Append(notification_history,
                               LogNotification(send.recipient, channel,
                                               send.template_name,
                                               send.variables, result))
    /\ UNCHANGED <<outside_dispatch, quiet, user_preferences,
                   notification_templates, config, clock_hour, alert_rules,
                   alert_clock, sweep>>

\* line 238: return results
ReturnResults ==
    /\ send.pc = "loop"
    /\ send.next > Len(send.channels)
    /\ send' = [send EXCEPT !.pc = "done", !.returned = send.results]
    /\ UNCHANGED <<outside_dispatch, quiet, user_preferences,
                   notification_templates, notification_history, config,
                   clock_hour, delivered, alert_rules, alert_clock, sweep>>

SendNext == ResolveChannels \/ AttemptChannel \/ ReturnResults

SpecSend == SendInit /\ [][SendNext]_vars

\* the elements of a sequence
Range(seq) == {seq[i] : i \in DOMAIN seq}

\* the dispatch has returned
Dispatched == send # <<>> /\ send.pc = "done"

\* the recipient's stored window, unset for a recipient without a row
StoredWindow ==
    IF Recipient \in DOMAIN user_preferences
    THEN <<user_preferences[Recipient].quiet_hours_start,
           user_preferences[Recipient].quiet_hours_end>>
    ELSE <<NULL, NULL>>

\* the dispatch happens in the recipient's quiet hours
InQuietHours == StatedQuietHours(StoredWindow[1], StoredWindow[2], clock_hour)

\* the channels resolved for the dispatch, before quiet hours are looked at
ResolvedChannels ==
    IF send.forced # NULL
    THEN send.forced
    ELSE DetermineChannels(GetUserPreferences(Recipient), send.template_name)

StoredPreferences ==
    IF Recipient \in DOMAIN user_preferences
    THEN user_preferences[Recipient]
    ELSE [preferred_channels |-> <<"sms">>, sms_enabled |-> TRUE,
          email_enabled |-> FALSE]

\* the enabled flag of a channel; only sms and email have one
ChannelEnabled(ch) ==
    CASE ch = "sms" -> StoredPreferences.sms_enabled
      [] ch = "email" -> StoredPreferences.email_enabled
      [] OTHER -> TRUE

\* the stated resolution: the forced channels, or else the preferred
\* channels whose flag is enabled
StatedResolution ==
    IF send.forced # NULL
    THEN Range(send.forced)
    ELSE {ch \in Range(StoredPreferences.preferred_channels) : ChannelEnabled(ch)}

\* C23: with forced channels exactly those are used; otherwise the channels
\* are the recipient's preferredChannels filtered by the per-channel enabled
\* flags: a channel that is not preferred is never attempted, nor is a
\* preferred channel whose flag is disabled (quiet hours may take channels
\* away, see C22).
C23_ChannelResolution ==
    Dispatched =>
        /\ Range(send.attempted) \subseteq StatedResolution
        /\ ~InQuietHours => Range(send.attempted) = StatedResolution

\* the template name denotes a system or alert template
AdminTemplate(template_name) ==
    \/ SubSeq(template_name, 1, 7) = <<"s","y","s","t","e","m","_">>
    \/ SubSeq(template_name, 1, 6) = <<"a","l","e","r","t","_">>

\* C24: for a template name that denotes a system or alert template
\* (system_*, alert_*), send unconditionally includes the administrator
\* channels slack and discord in the attempted channel set, regardless of
\* the recipient's preferences.
C24_AdminChannelsAlwaysAttempted ==
    (Dispatched /\ AdminTemplate(send.template_name)) =>
        {"slack", "discord"} \subseteq Range(send.attempted)

\* the last row of a table
Last(table) == table[Len(table)]

C26_OverallSuccessReturned ==
    Dispatched =>
        /\ "overallSuccess" \in DOMAIN send.returned
        /\ send.returned.overallSuccess
              <=> \E ch \in Range(send.attempted) : send.results[ch].success
        /\ Len(notification_history) = 1 + Len(send.attempted)

\* the channels left of the resolved set once quiet hours are applied
ChannelsDue ==
    IF InQuietHours
    THEN SelectSeq(ResolvedChannels, LAMBDA ch : ch \notin {"sms", "push"})
    ELSE ResolvedChannels

\* how often a channel was attempted
Attempts(ch) == Cardinality({i \in DOMAIN send.attempted : send.attempted[i] = ch})

TextChannels == {"sms", "email", "slack", "discord"}

TextOf(delivery) ==
    IF delivery.channel \in {"sms", "email"}
    THEN delivery.message.body
    ELSE delivery.message.text

\* C28: the template is looked up and rendered once per dispatch and the same
\* rendered subject and body are used on every channel: two channels of one
\* dispatch never deliver different text, and a channel never fails for lack
\* of a template that another channel of the dispatch found.
C28_SameRenderedTextOnEveryChannel ==
    Dispatched =>
        /\ \A i \in DOMAIN delivered, j \in DOMAIN delivered :
              (delivered[i].channel \in TextChannels
               /\ delivered[j].channel \in TextChannels) =>
                  TextOf(delivered[i]) = TextOf(delivered[j])
        /\ \A failed \in Range(send.attempted), found \in Range(send.attempted) :
              ~(/\ Get(send.results[failed], "error", "") = "Template not found"
                /\ GetTemplate(send.template_name, found) # NULL)

\* no row of notification_templates has the name of the dispatch
TemplateMissing ==
    \A row \in notification_templates : row.name # send.template_name

\* C29: when no template with the given name exists, send aborts the whole
\* dispatch and reports TemplateNotFound to the caller: no channel adapter is
\* called and nothing is delivered for that call.
C29_MissingTemplateAbortsDispatch ==
    (Dispatched /\ TemplateMissing) =>
        /\ delivered = <<>>
        /\ send.attempted = <<>>
        /\ "error" \in DOMAIN send.returned
        /\ send.returned["error"] = "TemplateNotFound"

\* ---------------------------------------------------------------------------
\* NotificationSystem: the alert rules and check_alert_conditions
\* ---------------------------------------------------------------------------

\* how often setup_alert_rules has run at most: once per process start
MaxSetups == 2

\* the last minute of the notifier's clock
MaxMinutes == 6

\* rule[i] of a fetched row: the columns of alert_rules in the order of
\* CREATE TABLE, counted from 0: id, name, condition_type, condition_value,
\* alert_level, notification_channels, enabled, cooldown_minutes,
\* last_triggered
Column(rule, i) == rule[i + 1]

\* a row of alert_rules with the defaults of the table: enabled 1 and
\* last_triggered NULL; a TIMESTAMP is <<minute>>
AlertRule(id, rule) ==
    <<id, rule.name, rule.condition_type, rule.condition_value,
      rule.alert_level, rule.notification_channels, 1, rule.cooldown_minutes,
      NULL>>

\* the texts of column condition_value and of health_status
critical == <<"c","r","i","t","i","c","a","l">>

healthy == <<"h","e","a","l","t","h","y">>

\* default_rules of setup_alert_rules
default_rules ==
    << [name |-> "High Error Rate", condition_type |-> "error_rate_threshold",
        condition_value |-> <<"1", "5">>, alert_level |-> "warning",
        notification_channels |-> <<"slack", "email">>,
        cooldown_minutes |-> 30],
       [name |-> "System Down", condition_type |-> "system_health",
        condition_value |-> critical, alert_level |-> "critical",
        notification_channels |-> <<"slack", "discord", "email", "sms">>,
        cooldown_minutes |-> 5],
       [name |-> "High Response Time",
        condition_type |-> "response_time_threshold",
        condition_value |-> <<"3", "0">>, alert_level |-> "warning",
        notification_channels |-> <<"slack">>,
        cooldown_minutes |-> 60] >>

\* the table after setup_alert_rules: no column of alert_rules is UNIQUE, so
\* INSERT OR IGNORE inserts every default rule, with the next ids
AfterSetup(table) ==
    table \o [i \in 1 .. Len(default_rules) |->
                 AlertRule(Len(table) + i, default_rules[i])]

\* the digits and their values
DigitValue ==
    [d \in {"0","1","2","3","4","5","6","7","8","9"} |->
        CASE d = "0" -> 0 [] d = "1" -> 1 [] d = "2" -> 2 [] d = "3" -> 3
          [] d = "4" -> 4 [] d = "5" -> 5 [] d = "6" -> 6 [] d = "7" -> 7
          [] d = "8" -> 8 [] d = "9" -> 9]

\* value.replace('.', '').isdigit()
IsDigitsWithoutDots(value) ==
    LET digits == SelectSeq(value, LAMBDA c : c # ".")
    IN  /\ digits # <<>>
        /\ \A i \in DOMAIN digits : digits[i] \in DOMAIN DigitValue

\* float(value) of a text of digits
RECURSIVE Float(_)
Float(value) ==
    IF value = <<>>
    THEN 0
    ELSE 10 * Float(SubSeq(value, 1, Len(value) - 1))
         + DigitValue[value[Len(value)]]

\* _evaluate_condition(rule, metrics); the threshold is the number when the
\* text is one and the text itself otherwise (a text compared with > or <
\* to a number would raise; no rule of default_rules does that)
EvaluateCondition(rule, metrics) ==
    LET condition_type == rule.condition_type
        numeric == IsDigitsWithoutDots(rule.condition_value)
        threshold == IF numeric THEN Float(rule.condition_value) ELSE 0
    IN  CASE condition_type = "error_rate_threshold" ->
                numeric /\ Get(metrics, "error_rate", 0) > threshold
          [] condition_type = "response_time_threshold" ->
                numeric /\ Get(metrics, "avg_response_time", 0) > threshold
          [] condition_type = "system_health" ->
                ~numeric /\ Get(metrics, "health_status", <<>>) = rule.condition_value
          [] condition_type = "active_users_low" ->
                numeric /\ Get(metrics, "active_users", 0) < threshold
          [] OTHER -> FALSE

\* rule_data of check_alert_conditions: it takes 'cooldown_minutes' from
\* rule[6], which is column enabled, and 'last_triggered' from rule[7],
\* which is column cooldown_minutes
RuleData(rule) ==
    [id |-> Column(rule, 0),
     name |-> Column(rule, 1),
     condition_type |-> Column(rule, 2),
     condition_value |-> Column(rule, 3),
     alert_level |-> Column(rule, 4),
     notification_channels |-> Column(rule, 5),
     cooldown_minutes |-> Column(rule, 6),
     last_triggered |-> Column(rule, 7)]

\* the outcome of a sweep so far: the alerts, the table as updated inside
\* the open transaction, or the exception that ended it
Swept(triggered_alerts, table) ==
    [triggered_alerts |-> triggered_alerts, table |-> table]

\* the loop of check_alert_conditions from the i-th fetched rule on, at
\* minute instant.  rule_data['last_triggered'] is the integer of column
\* cooldown_minutes: when it is not 0, datetime.fromisoformat is called with
\* an integer and raises TypeError; when it is 0 the cooldown is not looked at
RECURSIVE CheckFrom(_, _, _, _, _)
CheckFrom(rules, i, metrics, instant, swept) ==
    IF i > Len(rules)
    THEN swept
    ELSE LET rule_data == RuleData(rules[i])
         IN  IF rule_data.last_triggered # 0
             THEN Raises("TypeError")
             ELSE IF EvaluateCondition(rule_data, metrics)
                  THEN CheckFrom(rules, i + 1, metrics, instant,
                          Swept(Append(swept.triggered_alerts, rule_data),
                                [r \in DOMAIN swept.table |->
                                    IF Column(swept.table[r], 0) = rule_data.id
                                    THEN [swept.table[r] EXCEPT ![9] = <<instant>>]
                                    ELSE swept.table[r]]))
                  ELSE CheckFrom(rules, i + 1, metrics, instant, swept)

\* check_alert_conditions(metrics) at minute instant: the rows with
\* enabled = 1 in the order of their ids
CheckAlertConditionsResult(table, metrics, instant) ==
    CheckFrom(SelectSeq(table, LAMBDA rule : Column(rule, 6) = 1), 1, metrics,
              instant, Swept(<<>>, table))

\* the metrics of get_system_health a sweep is called with
SystemMetrics ==
    {[error_rate |-> error_rate, avg_response_time |-> avg_response_time,
      health_status |-> health_status] :
        error_rate \in {10, 20}, avg_response_time \in {10, 40},
        health_status \in {healthy, critical}}

\* the notifier right after _init_database: no rule, no sweep yet
AlertsInit ==
    /\ RouterIdle
    /\ DjangoIdle
    /\ AnalysisIdle
    /\ NotifierIdle
    /\ BackgroundIdle
    /\ quiet = <<>>
    /\ user_preferences = <<>>
    /\ notification_templates = {}
    /\ notification_history = <<>>
    /\ config = <<>>
    /\ clock_hour = 0
    /\ send = <<>>
    /\ delivered = <<>>
    /\ alert_rules = <<>>
    /\ alert_clock = 0
    /\ sweep = [outcome |-> "none", metrics |-> <<>>, instant |-> 0,
                before |-> <<>>, triggered_alerts |-> <<>>, error |-> ""]

\* setup_alert_rules, called at every start of the process
SetupAlertRules ==
    /\ Len(alert_rules) < MaxSetups * Len(default_rules)
    /\ alert_rules' = AfterSetup(alert_rules)
    /\ UNCHANGED <<outside_dispatch, quiet, user_preferences,
                   notification_templates, notification_history, config,
                   clock_hour, send, delivered, alert_clock, sweep>>

\* a minute passes
AlertTick ==
    /\ alert_clock < MaxMinutes
    /\ alert_clock' = alert_clock + 1
    /\ UNCHANGED <<outside_dispatch, quiet, user_preferences,
                   notification_templates, notification_history, config,
                   clock_hour, send, delivered, alert_rules, sweep>>

\* one call of check_alert_conditions: it returns the triggered alerts and
\* commits its updates, or raises, and then nothing is committed
CheckAlertConditions ==
    /\ \E metrics \in SystemMetrics :
          LET result == CheckAlertConditionsResult(alert_rules, metrics,
                                                   alert_clock)
          IN  IF "exception" \in DOMAIN result
              THEN /\ sweep' = [outcome |-> "raised", metrics |-> metrics,
                                instant |-> alert_clock, before |-> alert_rules,
                                triggered_alerts |-> <<>>,
                                error |-> result.exception]
                   /\ UNCHANGED alert_rules
              ELSE /\ sweep' = [outcome |-> "returned", metrics |-> metrics,
                                instant |-> alert_clock, before |-> alert_rules,
                                triggered_alerts |-> result.triggered_alerts,
                                error |-> ""]
                   /\ alert_rules' = result.table
    /\ UNCHANGED <<outside_dispatch, quiet, user_preferences,
                   notification_templates, notification_history, config,
                   clock_hour, send, delivered, alert_clock>>

AlertsNext == SetupAlertRules \/ AlertTick \/ CheckAlertConditions

SpecAlerts == AlertsInit /\ [][AlertsNext]_vars

\* a sweep has been made
SweepMade == sweep # <<>> /\ sweep.outcome # "none"

\* the rule of the row was within its cooldown when the sweep ran: it had
\* triggered before and less than cooldown_minutes have passed since
WithinCooldown(row) ==
    /\ row[9] # NULL
    /\ sweep.instant - row[9][1] < row[8]

\* the sweep returned the rule of the row as triggered
ReturnedAsTriggered(row) ==
    \E i \in DOMAIN sweep.triggered_alerts : sweep.triggered_alerts[i].id = row[1]

ConditionHolds(row, metrics) ==
    CASE row[3] = "error_rate_threshold" -> metrics.error_rate > Float(row[4])
      [] row[3] = "response_time_threshold" ->
            metrics.avg_response_time > Float(row[4])
      [] row[3] = "system_health" -> metrics.health_status = row[4]
      [] OTHER -> FALSE

\* the rule of the row is due: it is enabled, its condition holds, and it
\* never triggered or its cooldown has passed since it last did
RuleDue(row) ==
    /\ row[7] = 1
    /\ ConditionHolds(row, sweep.metrics)
    /\ ~WithinCooldown(row)

\* C31: alert cooldown expiry: an enabled rule whose condition holds is
\* returned as triggered by every sweep that runs when the time elapsed since
\* it last triggered is at least its cooldown, or when it never triggered.
C31_DueRuleIsTriggered ==
    SweepMade =>
        \A i \in DOMAIN sweep.before :
            RuleDue(sweep.before[i]) => ReturnedAsTriggered(sweep.before[i])

\* C33: a sweep returns exactly the enabled rules outside cooldown whose
\* condition holds; it sets last_triggered to the instant of the sweep for
\* exactly the returned rules and leaves last_triggered of every other rule,
\* and every disabled rule, unchanged.
C33_ExactlyDueRulesTriggered ==
    SweepMade =>
        \A i \in DOMAIN sweep.before :
            /\ ReturnedAsTriggered(sweep.before[i]) <=> RuleDue(sweep.before[i])
            /\ alert_rules[i] =
                  IF RuleDue(sweep.before[i])
                  THEN [sweep.before[i] EXCEPT ![9] = <<sweep.instant>>]
                  ELSE sweep.before[i]

\* the rows of the store with the name of a default rule
RowsNamed(name) == {i \in DOMAIN alert_rules : alert_rules[i][2] = name}

\* C36: setup_alert_rules is idempotent: after any number of calls the store
\* holds exactly one rule for each default rule name, so a sweep returns at
\* most one triggered rule per name.
C36_SetupIsIdempotent ==
    /\ alert_rules # <<>> =>
          \A d \in DOMAIN default_rules :
              Cardinality(RowsNamed(default_rules[d].name)) = 1
    /\ SweepMade =>
          \A i \in DOMAIN sweep.triggered_alerts,
             j \in DOMAIN sweep.triggered_alerts :
                sweep.triggered_alerts[i].name = sweep.triggered_alerts[j].name
                   => i = j


\* ---------------------------------------------------------------------
\* Overlapping sweeps.  Every call of check_alert_conditions opens a
\* connection of its own: it reads the enabled rules with one SELECT, and
\* then loops over the rows it fetched, updates and commits.  Nothing holds
\* the store between the SELECT and the first UPDATE, so another sweep can
\* read, update and commit in between.

\* the two instances that sweep
Sweepers == {"first", "second"}

\* the rules are rows of the store an operator can configure: the table as
\* setup_alert_rules leaves it, with every cooldown_minutes set to minutes
Configured(minutes) ==
    [i \in DOMAIN AfterSetup(<<>>) |->
        [AfterSetup(<<>>)[i] EXCEPT ![8] = minutes]]

\* a sweeper that is not sweeping
Resting ==
    [pc |-> "resting", metrics |-> <<>>, rules |-> <<>>, during |-> {},
     over |-> <<>>, instant |-> 0, triggered_alerts |-> <<>>, error |-> ""]

OverlapInit ==
    /\ RouterIdle
    /\ DjangoIdle
    /\ AnalysisIdle
    /\ NotifierIdle
    /\ quiet = <<>>
    /\ user_preferences = <<>>
    /\ notification_templates = {}
    /\ notification_history = <<>>
    /\ config = <<>>
    /\ clock_hour = 0
    /\ send = <<>>
    /\ delivered = <<>>
    /\ alert_rules \in {AfterSetup(<<>>), Configured(0)}
    /\ alert_clock = 0
    /\ sweep = <<>>
    /\ sweepers = [s \in Sweepers |-> Resting]
    /\ monitor = <<>>
    /\ request_timestamps = <<>>
    /\ wall_clock = 0
    /\ limited = <<>>

\* cursor.execute('SELECT * FROM alert_rules WHERE enabled = 1') and
\* fetchall() of sweeper s; during is the set of sweeps that have read and
\* not yet committed at this moment
FetchRules(s) ==
    /\ sweepers[s].pc = "resting"
    /\ \E metrics \in SystemMetrics :
          sweepers' = [sweepers EXCEPT ![s] =
              [Resting EXCEPT
                 !.pc = "fetched",
                 !.metrics = metrics,
                 !.rules = SelectSeq(alert_rules,
                                     LAMBDA rule : Column(rule, 6) = 1),
                 !.during = {o \in Sweepers \ {s} :
                                sweepers[o].pc = "fetched"}]]
    /\ UNCHANGED <<now, store, clients, req, db_up, django, an, rendered,
                   dispatch, monitor, request_timestamps, wall_clock, limited>>

\* the loop of sweeper s over the rows it fetched, its UPDATEs of the rows
\* with the ids of the triggered rules, and its commit: over is the table
\* the updates are applied to.  When the loop raises nothing is committed.
UpdateAndCommit(s) ==
    /\ sweepers[s].pc = "fetched"
    /\ LET result == CheckFrom(sweepers[s].rules, 1, sweepers[s].metrics,
                               alert_clock, Swept(<<>>, alert_rules))
       IN  IF "exception" \in DOMAIN result
           THEN /\ sweepers' = [sweepers EXCEPT ![s] =
                      [@ EXCEPT !.pc = "raised", !.over = alert_rules,
                                !.instant = alert_clock,
                                !.error = result.exception]]
                /\ UNCHANGED alert_rules
           ELSE /\ sweepers' = [sweepers EXCEPT ![s] =
                      [@ EXCEPT !.pc = "returned", !.over = alert_rules,
                                !.instant = alert_clock,
                                !.triggered_alerts = result.triggered_alerts]]
                /\ alert_rules' = result.table
    /\ UNCHANGED <<now, store, clients, req, db_up, django, an, rendered,
                   quiet, user_preferences, notification_templates,
                   notification_history, config, clock_hour, send, delivered,
                   alert_clock, sweep, monitor, request_timestamps,
                   wall_clock, limited>>

OverlapNext ==
    \/ AlertTick
    \/ \E s \in Sweepers : FetchRules(s)
    \/ \E s \in Sweepers : UpdateAndCommit(s)

SpecOverlap == OverlapInit /\ [][OverlapNext]_vars

\* sweeps s and o overlap: one of them read the rules while the other had
\* read them and had not yet committed
Overlapping(s, o) == o \in sweepers[s].during \/ s \in sweepers[o].during

\* the ids of the rules sweeper s returned as triggered
ReturnedBy(s) ==
    {sweepers[s].triggered_alerts[i].id :
        i \in DOMAIN sweepers[s].triggered_alerts}

TimerMinutes == 5

\* no process
Stopped == [running |-> FALSE, monitoring |-> FALSE, timer |-> NULL, sweeps |-> 0]

MonitorInit ==
    /\ RouterIdle
    /\ DjangoIdle
    /\ AnalysisIdle
    /\ NotifierIdle
    /\ quiet = <<>>
    /\ user_preferences = <<>>
    /\ notification_templates = {}
    /\ notification_history = <<>>
    /\ config = <<>>
    /\ clock_hour = 0
    /\ send = <<>>
    /\ delivered = <<>>
    /\ alert_rules = <<>>
    /\ alert_clock = 0
    /\ sweep = [outcome |-> "none", metrics |-> <<>>, instant |-> 0,
                before |-> <<>>, triggered_alerts |-> <<>>, error |-> ""]
    /\ sweepers = <<>>
    /\ monitor = Stopped
    /\ request_timestamps = <<>>
    /\ wall_clock = 0
    /\ limited = <<>>

\* python app.py: with ADVANCED_FEATURES_AVAILABLE the module creates the
\* TaskRouter and the NotificationSystem, calls setup_alert_rules, and the
\* main program starts the timer; without them it starts no monitoring
StartProcess ==
    /\ ~monitor.running
    /\ Len(alert_rules) < MaxSetups * Len(default_rules)
    /\ \E ADVANCED_FEATURES_AVAILABLE \in BOOLEAN :
          IF ADVANCED_FEATURES_AVAILABLE
          THEN /\ alert_rules' = AfterSetup(alert_rules)
               /\ monitor' = [running |-> TRUE, monitoring |-> TRUE,
                              timer |-> <<TimerMinutes>>, sweeps |-> 0]
          ELSE /\ monitor' = [Stopped EXCEPT !.running = TRUE]
               /\ UNCHANGED alert_rules
    /\ UNCHANGED <<now, store, clients, req, db_up, django, an, rendered,
                   quiet, user_preferences, notification_templates,
                   notification_history, config, clock_hour, send, delivered,
                   alert_clock, sweep, sweepers, request_timestamps,
                   wall_clock, limited>>

\* the process ends; the timer is a daemon thread and ends with it
StopProcess ==
    /\ monitor.running
    /\ monitor' = Stopped
    /\ UNCHANGED <<now, store, clients, req, db_up, django, an, rendered,
                   dispatch, sweepers, request_timestamps, wall_clock, limited>>

\* a minute of the interval of the started timer passes
TimerTick ==
    /\ monitor.timer # NULL
    /\ monitor.timer[1] > 0
    /\ monitor' = [monitor EXCEPT !.timer = <<@[1] - 1>>]
    /\ alert_clock' = alert_clock + 1
    /\ UNCHANGED <<now, store, clients, req, db_up, django, an, rendered,
                   quiet, user_preferences, notification_templates,
                   notification_history, config, clock_hour, send, delivered,
                   alert_rules, sweep, sweepers, request_timestamps,
                   wall_clock, limited>>

\* the timer calls check_system_alerts: the sweep over the metrics of
\* get_system_health; an exception of the sweep is caught and logged, and
\* the alerts of a sweep that returned are handed to asyncio.create_task,
\* which raises in a thread without event loop, so nothing is delivered.
\* Nothing starts another timer.
CheckSystemAlerts ==
    /\ monitor.timer = <<0>>
    /\ \E metrics \in SystemMetrics :
          LET result == CheckAlertConditionsResult(alert_rules, metrics,
                                                   alert_clock)
          IN  IF "exception" \in DOMAIN result
              THEN /\ sweep' = [outcome |-> "raised", metrics |-> metrics,
                                instant |-> alert_clock, before |-> alert_rules,
                                triggered_alerts |-> <<>>,
                                error |-> result.exception]
                   /\ UNCHANGED alert_rules
              ELSE /\ sweep' = [outcome |-> "returned", metrics |-> metrics,
                                instant |-> alert_clock, before |-> alert_rules,
                                triggered_alerts |-> result.triggered_alerts,
                                error |-> ""]
                   /\ alert_rules' = result.table
    /\ monitor' = [monitor EXCEPT !.timer = NULL, !.sweeps = @ + 1]
    /\ UNCHANGED <<now, store, clients, req, db_up, django, an, rendered,
                   quiet, user_preferences, notification_templates,
                   notification_history, config, clock_hour, send, delivered,
                   alert_clock, sweepers, request_timestamps, wall_clock,
                   limited>>

MonitorNext == StartProcess \/ StopProcess \/ TimerTick \/ CheckSystemAlerts

\* time passes and a timer whose interval has passed calls its function;
\* nothing obliges a process to start or to end
SpecMonitor ==
    /\ MonitorInit
    /\ [][MonitorNext]_vars
    /\ WF_vars(TimerTick)
    /\ WF_vars(CheckSystemAlerts)

\* C35: once the background monitoring of a process has started,
\* check_system_alerts runs again and again: after every sweep of the
\* running process a later sweep eventually takes place.
C35_SweepsKeepComing ==
    \A n \in 1 .. MaxSetups :
        [](monitor.monitoring /\ monitor.sweeps = n
            => <>(~monitor.monitoring \/ monitor.sweeps > n))


\* ---------------------------------------------------------------------
\* The fallback limiter basic_rate_limit of app.py, which enhanced_rate_limit
\* uses when there is no task router.  request_timestamps maps a sender to
\* the times of its recorded requests.

MAX_REQUESTS_PER_HOUR == 10

\* the length of the window in seconds
WindowSeconds == 3600

\* the seconds of one step of the clock: half a window
StepSeconds == WindowSeconds \div 2

\* the requests of a run and the steps of its clock
MaxRequests == 12
MaxSteps == 2

\* request.values.get('From', 'unknown')
FromNumbers == {"+15550001", "unknown"}

\* [ts for ts in request_timestamps.get(from_number, []) if current_time - ts < 3600]
RecentTimestamps(timestamps, current_time) ==
    SelectSeq(timestamps, LAMBDA ts : current_time - ts < WindowSeconds)

\* a variant that stops a sender only above the maximum
OverLimit_Above(timestamps) == Len(timestamps) > MAX_REQUESTS_PER_HOUR

\* len(request_timestamps.get(from_number, [])) >= MAX_REQUESTS_PER_HOUR
OverLimit(timestamps) == Len(timestamps) >= MAX_REQUESTS_PER_HOUR

\* request_timestamps after a request of from_number at current_time
AfterBasicRateLimit(timestamps, from_number, current_time) ==
    LET cleaned == RecentTimestamps(Get(timestamps, from_number, <<>>),
                                    current_time)
        kept == [n \in DOMAIN timestamps \cup {from_number} |->
                    IF n = from_number THEN cleaned ELSE timestamps[n]]
    IN  IF OverLimit(cleaned)
        THEN kept
        ELSE [kept EXCEPT ![from_number] = Append(cleaned, current_time)]

BasicLimitInit ==
    /\ RouterIdle
    /\ DjangoIdle
    /\ AnalysisIdle
    /\ NotifierIdle
    /\ DispatchIdle
    /\ sweepers = <<>>
    /\ monitor = <<>>
    /\ request_timestamps = <<>>
    /\ wall_clock = 0
    /\ limited = [from_number |-> "", current_time |-> 0, passed |-> FALSE,
                  before |-> <<>>, served |-> 0,
                  accepted |-> [n \in FromNumbers |-> <<>>]]

\* time.time() moves on
ClockStep ==
    /\ wall_clock < MaxSteps * StepSeconds
    /\ wall_clock' = wall_clock + StepSeconds
    /\ UNCHANGED <<now, store, clients, req, db_up, django, an, rendered,
                   dispatch, sweepers, monitor, request_timestamps, limited>>

\* one request through basic_rate_limit: it is answered with "Rate limit
\* exceeded" or recorded and passed on to the view.  limited keeps the
\* request, the store before it and the times of the requests passed on.
BasicRateLimit ==
    /\ limited.served < MaxRequests
    /\ \E from_number \in FromNumbers :
          LET after == AfterBasicRateLimit(request_timestamps, from_number,
                                           wall_clock)
              passed == ~OverLimit(RecentTimestamps(
                            Get(request_timestamps, from_number, <<>>),
                            wall_clock))
          IN  /\ request_timestamps' = after
              /\ limited' =
                    [from_number |-> from_number,
                     current_time |-> wall_clock,
                     passed |-> passed,
                     before |-> request_timestamps,
                     served |-> limited.served + 1,
                     accepted |->
                        IF passed
                        THEN [limited.accepted EXCEPT
                                ![from_number] = Append(@, wall_clock)]
                        ELSE limited.accepted]
    /\ UNCHANGED <<now, store, clients, req, db_up, django, an, rendered,
                   dispatch, sweepers, monitor, wall_clock>>

BasicLimitNext == ClockStep \/ BasicRateLimit

SpecBasicLimit == BasicLimitInit /\ [][BasicLimitNext]_vars

\* the requests of sender n passed on at a time from start on and less
\* than 3600 seconds after it
PassedInWindow(n, start) ==
    {i \in DOMAIN limited.accepted[n] :
        /\ limited.accepted[n][i] >= start
        /\ limited.accepted[n][i] - start < WindowSeconds}

\* the requests of sender n passed on less than 3600 seconds before instant,
\* the last request left aside when it was passed on
YoungBefore(n, instant) ==
    LET earlier == IF limited.passed
                   THEN SubSeq(limited.accepted[n], 1,
                               Len(limited.accepted[n]) - 1)
                   ELSE limited.accepted[n]
    IN  {i \in DOMAIN earlier : instant - earlier[i] < WindowSeconds}

\* C38: the fallback limiter passes a sender on at most 10 times in any
\* window of 3600 seconds; a request that arrives when 10 passed requests
\* of its sender are less than 3600 seconds old is rejected and not
\* recorded; the records of the other senders are left as they were.
C38_BasicLimitWindow ==
    /\ \A n \in FromNumbers : \A i \in DOMAIN limited.accepted[n] :
          Cardinality(PassedInWindow(n, limited.accepted[n][i]))
             <= MAX_REQUESTS_PER_HOUR
    /\ limited.served > 0 =>
          /\ limited.passed <=>
                Cardinality(YoungBefore(limited.from_number,
                                        limited.current_time))
                   < MAX_REQUESTS_PER_HOUR
          /\ ~limited.passed =>
                request_timestamps[limited.from_number]
                   = RecentTimestamps(Get(limited.before, limited.from_number,
                                          <<>>), limited.current_time)
          /\ \A n \in DOMAIN limited.before \ {limited.from_number} :
                request_timestamps[n] = limited.before[n]
          /\ DOMAIN request_timestamps
                = DOMAIN limited.before \cup {limited.from_number}

\* an eleventh request of a sender within the hour was rejected and left
\* unrecorded while the other sender has a recorded request
C38_Witness ==
    /\ limited.served > 0
    /\ ~limited.passed
    /\ Len(request_timestamps[limited.from_number]) = MAX_REQUESTS_PER_HOUR
    /\ limited.current_time > 0
    /\ \E n \in DOMAIN request_timestamps \ {limited.from_number} :
          request_timestamps[n] # <<>>


(***************************************************************************)
(* Calls of route_task one after another, from a store as the earlier      *)
(* calls of a user left it: the row of users counts the calls since the    *)
(* INSERT that created it with monthly_requests 0, every call persisted at *)
(* most one task, and no day holds more tasks than the daily limit.        *)
(***************************************************************************)
\* the day a number of days before StartDate, in January 2025
DaysBefore(days) == <<StartDate[1], StartDate[2], StartDate[3] - days>>

\* earlier tasks of the known user made on the days before StartDate, daily
\* of them on a day, and then today tasks made on StartDate
SeriesTasks(earlier, today, daily) ==
    [i \in 1..(earlier + today) |->
        IF i <= earlier
        THEN OldTask(KnownPhone, DaysBefore(1 + ((earlier - i) \div daily)), i)
        ELSE OldTask(KnownPhone, StartDate, i)]

\* the tier of the known user of the series
SeriesTiers == {"free"}

SeriesInit ==
    /\ now = StartDate
    /\ \/ /\ users = <<>>
          /\ tasks = <<>>
       \/ \E tier \in SeriesTiers :
             \E m \in (limits[tier].monthly - Slack - 1)..(limits[tier].monthly + Slack) :
             \E lost \in {0, 1} :
             \E today \in {0, limits[tier].daily - 1, limits[tier].daily} :
                LET total == Min(m + 1, limits[tier].monthly) - lost
                IN  /\ today <= total
                    /\ users = [p \in {KnownPhone} |->
                                  [tier               |-> tier,
                                   last_active        |-> Val(StartDate),
                                   total_requests     |-> m,
                                   monthly_requests   |-> m,
                                   monthly_reset_date |-> PlusOneMonth(<<2025, 1, 1>>)]]
                    /\ tasks = SeriesTasks(total - today, today,
                                           limits[tier].daily)
    /\ system_metrics = EmptyBag
    /\ error_logs = EmptyBag
    /\ cursor_agent = TRUE
    /\ twilio_client = TRUE
    /\ req = [c \in Calls |-> InitReq]
    /\ db_up = TRUE
    /\ DjangoIdle
    /\ AnalysisIdle
    /\ NotifierIdle
    /\ DispatchIdle
    /\ BackgroundIdle

\* a message arrives when no other call is being handled
SelectUserInTurn(c) ==
    /\ \A d \in Calls \ {c} : req[d].pc \in {"idle", "done"}
    /\ SelectUser(c)

SeriesNext ==
    \/ Tick
    \/ \E c \in Calls :
          \/ SelectUserInTurn(c)
          \/ UpdateUserActivity(c)
          \/ CheckRateLimits(c)
          \/ CreateTaskRecord(c)
          \/ TaskFailed(c)
          \/ TaskSucceeded(c)
          \/ UnexpectedError(c)

SpecSeries == SeriesInit /\ [][SeriesNext]_vars

\* the rows of tasks of that user
TasksOf(phone) == {i \in 1..Len(tasks) : tasks[i].user_phone = phone}

\* call c takes the step that persists its task
Persists(c) == req[c].pc = "create" /\ Len(tasks') > Len(tasks)

\* C34: for a user of a fixed tier whose calls of route_task run one after
\* another, the tasks persisted within a monthly period never exceed the
\* monthly limit of the tier and the tasks persisted on one day never exceed
\* its daily limit; the call that persists a task is at most the call of the
\* month with the number of the limit, so that for a free user the 50th call
\* is the last that can be allowed, and the 51st is denied.
C34_TasksWithinLimits ==
    /\ [](\A p \in DOMAIN users :
            /\ Cardinality(TasksOf(p)) <= StatedMonthlyLimit(users[p].tier)
            /\ \A day \in {tasks[i].created_at : i \in TasksOf(p)} :
                  Cardinality(TasksOn(p, day))
                     <= StatedDailyLimit(users[p].tier))
    /\ [][\A c \in Calls :
            /\ Persists(c) =>
                  req[c].user_info.monthly_requests + 1
                     <= StatedMonthlyLimit(req[c].user_info.tier)
            /\ (Checks(c) /\ req[c].user_info.tier = "free"
                          /\ req[c].user_info.monthly_requests + 1 > 50) =>
                  MonthlyDenial(req'[c].routing_result)]_vars

\* the 50th call of a free user persisted the 50th task of the month and
\* the 51st call has been denied
C34_Witness ==
    \E c \in Calls :
        /\ MonthlyDenial(req[c].routing_result)
        /\ req[c].from_number \in DOMAIN users
        /\ users[req[c].from_number].tier = "free"
        /\ users[req[c].from_number].monthly_requests = 50
        /\ Cardinality(TasksOf(req[c].from_number)) = 50
        /\ tasks[Len(tasks)].user_phone = req[c].from_number
        /\ tasks[Len(tasks)].task_hash[2] \in InboundTexts


(***************************************************************************)
(* A stored tier the router does not know.  Column tier of users is a TEXT *)
(* without a constraint, so a row can hold a value that is none of free,   *)
(* premium, enterprise.                                                    *)
(***************************************************************************)
UnknownTier == "trial"

StoredTiers == Tiers \cup {UnknownTier}

DriftInit ==
    /\ RouterIdle
    /\ DjangoIdle
    /\ NotifierIdle
    /\ DispatchIdle
    /\ BackgroundIdle
    /\ \E tier \in StoredTiers, analysis \in Analyses :
          an = [pc |-> "analysed", request_text |-> None, user_info |-> [tier |-> tier],
                analysis |-> analysis, priority |-> 0, routing_decision |-> None]

DriftNext == CalculatePriority \/ MakeRoutingDecision

SpecDrift == DriftInit /\ [][DriftNext]_vars

\* the user_info of a free-tier user
FreeUser == [tier |-> "free"]

\* C37: a user whose stored tier is none of free, premium, enterprise is
\* treated as a free-tier user everywhere: the quota limits are the free
\* limits, the base priority is low, and for every category and complexity
\* the model, the maximum of tokens and the code execution of the routing
\* decision are those a free-tier user gets.
C37_UnknownTierIsFree ==
    (an.pc = "routed" /\ an.user_info.tier \notin Tiers) =>
        LET free == MakeRoutingDecisionResult(an.analysis,
                        CalculatePriorityResult(FreeUser, an.analysis), FreeUser)
        IN  /\ tier_limits(an.user_info.tier) = limits["free"]
            /\ BasePriority(an.user_info.tier) = TaskPriority.LOW
            /\ an.priority = CalculatePriorityResult(FreeUser, an.analysis)
            /\ an.routing_decision.model = free.model
            /\ an.routing_decision.max_tokens = free.max_tokens
            /\ an.routing_decision.enable_code_execution
                  = free.enable_code_execution


\* the phone numbers of the senders of inbound messages, as Twilio hands
\* them over and as the Django deployment cleans them
SenderNumbers == Phones \cup {DjPhone(from_number) : from_number \in Phones}

\* C39: every user record of the task router is keyed by the phone number
\* of the sender of an inbound message, on every path through the request
\* handlers, the Django path sms_receive, process_with_ai, route_task
\* included; none is keyed by a message text or a tier name, and the owner
\* of every task is the sender of its request.
C39_UsersKeyedBySender ==
    /\ \A key \in DOMAIN users : key \in SenderNumbers
    /\ \A i \in 1..Len(tasks) : tasks[i].user_phone \in SenderNumbers

====
